---- MODULE Spec2Model ----
(***************************************************************************)
(* A model of the NIXL backend engines: the UCX (RDMA) engine of           *)
(* src/plugins/ucx/ucx_backend.cpp and the object-storage engine of        *)
(* src/plugins/obj/obj_backend.cpp.                                        *)
(*                                                                         *)
(* Caller-thread entry points (prepXfer, postXfer, checkXfer, releaseReqH, *)
(* connect, disconnect, loadRemoteConnInfo, getNotifs, ...) are one action *)
(* each.  The transport (request completion, data landing at the target,   *)
(* active-message delivery), the object store's completion callbacks and   *)
(* the progress thread run as actions of their own between them.           *)
(***************************************************************************)
EXTENDS Integers, Sequences, FiniteSets, TLC

(***************************************************************************)
(* Bounds of the model.                                                    *)
(***************************************************************************)
NumWorkers == 2      \* init_params->numWorkers
MaxDesc    == 2      \* descriptors per list
MaxXfers   == 2      \* prepXfer calls in one behaviour
MaxNotifs  == 2      \* notifications sent in one behaviour
MaxLoads   == 2      \* successful or failed loadRemoteConnInfo calls
MaxCalls   == 3      \* connect/disconnect calls in one behaviour
MaxPosts   == 2      \* postXfer calls in one behaviour
MaxGets    == 2      \* getNotifs calls in one behaviour

Workers == 0 .. (NumWorkers - 1)
Slots   == {"h1"}                \* the caller's handle variables (nixlBackendReqH*)
Lens    == {1, 2}                \* descriptor lengths
MdIds   == {"md1"}               \* nixlUcxPublicMetadata objects

localAgent  == "A"
remoteAgent == "B"
Agents      == {localAgent, remoteAgent}

(***************************************************************************)
(* nixl_status_t and nixl_xfer_op_t.                                       *)
(***************************************************************************)
NIXL_SUCCESS           == "NIXL_SUCCESS"
NIXL_IN_PROG           == "NIXL_IN_PROG"
NIXL_ERR_INVALID_PARAM == "NIXL_ERR_INVALID_PARAM"
NIXL_ERR_BACKEND       == "NIXL_ERR_BACKEND"
NIXL_ERR_NOT_FOUND     == "NIXL_ERR_NOT_FOUND"
NIXL_ERR_NOT_SUPPORTED == "NIXL_ERR_NOT_SUPPORTED"

NIXL_READ  == "NIXL_READ"
NIXL_WRITE == "NIXL_WRITE"
NIXL_OP_BAD == "NIXL_OP_BAD"     \* any other value of the enum
XferOps == {NIXL_READ, NIXL_WRITE, NIXL_OP_BAD}

\* Active-message opcodes of the nixl_ucx_am_hdr.
\* nixl_mem_t
DRAM_SEG == "DRAM_SEG"
VRAM_SEG == "VRAM_SEG"
OBJ_SEG  == "OBJ_SEG"
MemKinds == {DRAM_SEG, VRAM_SEG, OBJ_SEG}

CONN_CHECK == "CONN_CHECK"
DISCONNECT == "DISCONNECT"
NOTIF_STR  == "NOTIF_STR"

\* What a non-blocking transport call returns at once.
Outcomes == {NIXL_SUCCESS, NIXL_IN_PROG, NIXL_ERR_BACKEND}

None == "none"

\* "No such object" values of the record types below.
NoConn == [remoteAgent |-> None, connected |-> FALSE, eps |-> <<>>]
NoMd   == [conn |-> NoConn, rkeys |-> <<>>]
NoAm   == [op |-> None, rndv |-> FALSE, data |-> <<>>]
NoRel  == [ret |-> None, engine |-> None, last |-> None, left |-> 0]
NoPost == [n |-> 0, mism |-> FALSE, ops |-> None, disp |-> 0, ref |-> None,
           failed |-> FALSE, calls |-> <<>>, notif |-> FALSE]
NoReg  == [r |-> 0, kind |-> None, ret |-> None, out |-> None, before |-> None,
           after |-> None, done |-> FALSE, dret |-> None]
NoReq  == [operation |-> None, addr |-> 0, len |-> 0, op |-> None, key |-> "",
           range |-> <<>>]
NoAmCall == [n |-> 0, cb |-> None, op |-> None, rndv |-> FALSE, agent |-> None,
             ret |-> None]
NoPrep == [engine |-> None, local |-> None, remote |-> None, agent |-> None,
           ret |-> None, made |-> FALSE]
NoConnect == [pc |-> "idle", agent |-> None, reqs |-> <<>>, ret |-> None,
              i |-> 0, error |-> FALSE, out |-> None, tests |-> <<>>,
              wild |-> FALSE]
NoCall == [n |-> 0, op |-> None, agent |-> None, found |-> FALSE, ret |-> None,
           eps |-> <<>>, k |-> 0, am |-> None]

VARIABLES
    engine,          \* which backend this engine object is: "UCX" or "OBJ"
    nXfers,          \* handles created so far (names the transfers)
    hXfer,           \* slot -> 0 (no live handle there) or the transfer it holds
    worker_id,       \* nixlUcxBackendH::worker_id
    head,            \* nixlUcxBackendH::head: the chain of requests, head.next() first
    nPosts,          \* postXfer calls made through the slot so far
    hPosts,          \* slot -> postXfer calls made on the live handle
    unseen,          \* transfer -> one-sided writes issued and not yet at the target
    completed_,      \* nixlObjBackendReqH::completed_
    status_,         \* nixlObjBackendReqH::status_
    pendingCb,       \* object-store operations whose completion callback has not run
    checkHist,       \* slot -> what the last checkXfer of the live handle returned,
                     \* None when there was none since its last postXfer
    postHist,        \* slot -> what the last postXfer of the live handle returned
    errSeen,         \* slot -> a status() walk of the live handle saw test() fail
                     \* and no postXfer has released its chain since
    errEver,         \* slot -> a checkXfer of the live handle saw test() fail
    relHist,         \* what the last releaseReqH returned and the state it found
                     \* (forgotten at the next prepXfer)
    uafWrite,        \* a completion callback wrote through a deleted handle
    remoteConnMap,   \* nixlUcxEngine::remoteConnMap
    nEps,            \* endpoints created so far
    epState,         \* endpoint -> "open" or "closed", with who created/closed it
    rmd,             \* md -> nixlUcxPublicMetadata (a copy of the conn, the rkeys)
    connHist,        \* the last connect/disconnect/loadRemoteConnInfo call: what
                     \* it was given, what it did and what it returned
    nCalls,          \* connect/disconnect/loadRemoteConnInfo calls made
    closedUse,       \* a transport operation was issued on a closed endpoint
    pthrOn,          \* nixlUcxEngine::pthrOn of the receiving engine
    amChan,          \* worker -> NOTIF_STR messages in flight on its endpoint
    rxQueue,         \* messages arrived at the receiver, their callback not yet run
    nGets,           \* getNotifs calls made
    nSent,           \* notifications sent so far (names the messages)
    notifMainList,   \* nixlUcxEngine::notifMainList of the receiving engine
    notifPthrPriv,   \* nixlUcxEngine::notifPthrPriv
    notifPthr,       \* nixlUcxEngine::notifPthr
    cbRan,           \* message -> its NOTIF_STR callback has run ("pthr"/"caller")
    gotNotifs,       \* everything getNotifs has returned, in order
    lastGot,         \* what the last getNotifs returned
    earlyNotif,      \* a NOTIF_STR callback ran before its transfer's data landed
    amHist,          \* the last active-message callback the transport made
                     \* outside the notification channel: the callback, the
                     \* header's opcode, the protocol, what it returned
    dev_id_to_obj_key, \* nixlObjEngine::dev_id_to_obj_key
    objMd,           \* registration -> the nixlObjMetadata that registerMem made
    nRegs,           \* registerMem calls made (names the registrations)
    regHist,         \* the last registerMem call, and the deregisterMem of
                     \* its handle when that was the next call on the index
    objReq,          \* slot -> the request the last postXfer of the live
                     \* handle gave to the S3 client
    cuda_addr_wa,    \* nixlUcxEngine::cuda_addr_wa
    pthrCudaCtx,     \* nixlUcxCudaCtx::pthrCudaCtx (0: NULL)
    myDevId,         \* nixlUcxCudaCtx::myDevId
    pthrActive,      \* nixlUcxEngine::pthrActive
    pthrStop,        \* nixlUcxEngine::pthrStop
    nThreads,        \* progress threads created so far
    pthr,            \* nixlUcxEngine::pthr: where the thread created last
                     \* stands in progressFunc, and the context it applied
    callPc,          \* where the caller stands: in the constructor, in a
                     \* registerMem that restarts the thread, or between calls
    startHist,       \* the last return of progressThreadStart: who called it
                     \* and what the thread it created had done by then
    nRestarts,       \* progressThreadRestart calls made
    uReg,            \* the last registerMem call of the UCX engine
    opWorkers,       \* slot -> for the transport calls made on its last handle,
                     \* <<hash of the calling thread, worker called>>
    postInfo,        \* slot -> what the last postXfer of the live handle was
                     \* given and what it issued, None fields when there was
                     \* none since its last checkXfer
    prepHist,        \* the last prepXfer call: what it was given and what it
                     \* did (forgotten at the next call on a handle)
    held,            \* slot -> request slots the transport handed out for the
                     \* operations of its live handle and the engine has not
                     \* handed back (reqRelease)
    poolDirty,       \* the slots handed back to the transport's pool that were
                     \* not in their initial state: the path, the slot as it was
    liveBufs,        \* serialized notification buffers (ser_msg) allocated and
                     \* not deleted
    cancelMiss,      \* the requests a handle handed back with reqCancel called
                     \* on one already marked complete, or not called on one
                     \* that was not: the path, the request as it was
    connCall,        \* the connect call under way, statement by statement: its
                     \* requests, its ret, its loop index (pc "idle": none)
    cbStored,        \* completion callbacks that have stored status_ and not
                     \* yet completed_, with what they stored
    chkSeen,         \* slot -> a checkXfer under way has loaded completed_ as
                     \* true and not yet loaded status_
    cbWrote          \* the status_ stores the completion callbacks have made:
                     \* the handle and postXfer each belongs to, the value

xferVars  == <<engine, nXfers, hXfer, worker_id, head, nPosts, hPosts, unseen,
               completed_, status_, pendingCb, checkHist, postHist, errSeen,
               errEver, relHist, uafWrite>>
connVars  == <<remoteConnMap, nEps, epState, rmd, connHist, nCalls, closedUse>>
notifVars == <<pthrOn, amChan, rxQueue, nGets, nSent, notifMainList, notifPthrPriv,
               notifPthr, cbRan, gotNotifs, lastGot, earlyNotif, amHist>>
regVars   == <<dev_id_to_obj_key, objMd, nRegs, regHist, objReq>>
callVars  == <<opWorkers, postInfo, prepHist>>
pthrVars  == <<cuda_addr_wa, pthrCudaCtx, myDevId, pthrActive, pthrStop, nThreads,
               pthr, callPc, startHist, nRestarts, uReg>>
slotVars  == <<held, poolDirty, liveBufs, cancelMiss>>
raceVars  == <<connCall, cbStored, chkSeen, cbWrote>>
vars == <<xferVars, connVars, notifVars, regVars, callVars, pthrVars, slotVars,
          raceVars>>

(***************************************************************************)
(* Small helpers.                                                          *)
(***************************************************************************)
Reverse(q) == [i \in 1 .. Len(q) |-> q[Len(q) + 1 - i]]

Range(q) == {q[i] : i \in DOMAIN q}

(***************************************************************************)
(* The request chain (nixlLinkElem) and the request slot (nixlUcxIntReq).  *)
(* A slot the transport hands out is in its initial state: _completed = 0, *)
(* amBuffer = NULL.  st is the transport's own state of the operation,     *)
(* which the engine learns only through test().                            *)
(***************************************************************************)
nixlUcxIntReq(kind, amBuffer) ==
    [kind |-> kind, st |-> "pending", done |-> FALSE, amBuffer |-> amBuffer]

\* head.link(req): req becomes head.next(), the old chain follows it.
link(chain, req) == <<req>> \o chain

\* nixlUcxWorker::test: the status of the request, every failure the same code.
test(req) ==
    CASE req.st = "ok"      -> NIXL_SUCCESS
      [] req.st = "pending" -> NIXL_IN_PROG
      [] OTHER              -> NIXL_ERR_BACKEND

is_complete(req) == req.done

\* A reset that clears the completion flag and leaves amBuffer attached.
_internalRequestResetKeepsBuffer(req) == [req EXCEPT !.done = FALSE]

\* _internalRequestReset: the destructor (delete amBuffer) and the
\* constructor (_completed = 0, amBuffer = NULL) in place.
_internalRequestReset(req) == [req EXCEPT !.done = FALSE, !.amBuffer = FALSE]

\* The requests of a chain that carry a serialized notification buffer.
Buffers(chain) == Len(SelectSeq(chain, LAMBDA r : r.amBuffer))

\* Of the requests given to reqRelease on a path, those not in the state
\* _internalRequestInit leaves: marked complete, or with a buffer attached.
Dirty(path, freed) ==
    {[path |-> path, done |-> freed[i].done, amBuffer |-> freed[i].amBuffer] :
        i \in {j \in DOMAIN freed : freed[j].done \/ freed[j].amBuffer}}

\* uw->reqRelease(req) as release() and status() call it: the request after
\* its reset, with what it was at unlink (was: marked complete) and whether
\* reqCancel was called on it first.
reqRelease(req, cancelled) ==
    LET q == _internalRequestReset(req) IN
    [kind |-> q.kind, st |-> q.st, done |-> q.done, amBuffer |-> q.amBuffer,
     was |-> is_complete(req), cancelled |-> cancelled]

\* Of the requests a handle gave to reqRelease on a path, those cancelled
\* although marked complete, or not cancelled although not marked complete.
Miscancelled(path, freed) ==
    {[path |-> path, was |-> freed[i].was, cancelled |-> freed[i].cancelled] :
        i \in {j \in DOMAIN freed : freed[j].cancelled = freed[j].was}}

\* A release that calls reqCancel on every request of the chain.
releaseCancelsAll(chain) ==
    [ret       |-> NIXL_SUCCESS,
     chain     |-> <<>>,
     cancelled |-> Len(chain),
     released  |-> Len(chain),
     freed     |-> [i \in DOMAIN chain |-> reqRelease(chain[i], TRUE)],
     bufs      |-> Buffers(chain)]

\* A release that refuses a chain holding requests not yet marked complete.
releaseBusy(chain) ==
    [ret       |-> IF \E i \in DOMAIN chain : ~is_complete(chain[i])
                   THEN NIXL_ERR_BACKEND ELSE NIXL_SUCCESS,
     chain     |-> <<>>,
     cancelled |-> Len(SelectSeq(chain, LAMBDA r : ~is_complete(r))),
     released  |-> Len(chain),
     freed     |-> [i \in DOMAIN chain |->
                       reqRelease(chain[i], ~is_complete(chain[i]))],
     bufs      |-> Buffers(chain)]

\* nixlUcxBackendH::release: every request of the chain is unlinked, cancelled
\* if not marked complete, reset and handed back; NIXL_SUCCESS in all cases.
\* freed: the requests as they are given to reqRelease, in chain order;
\* bufs: the buffers the resets deleted.
release(chain) ==
    [ret       |-> NIXL_SUCCESS,
     chain     |-> <<>>,
     cancelled |-> Len(SelectSeq(chain, LAMBDA r : ~is_complete(r))),
     released  |-> Len(chain),
     freed     |-> [i \in DOMAIN chain |->
                       reqRelease(chain[i], ~is_complete(chain[i]))],
     bufs      |-> Buffers(chain)]

\* The first loop of nixlUcxBackendH::status: test every request not yet marked
\* complete, in chain order; a failed test returns at once.
RECURSIVE statusWalk(_, _, _)
statusWalk(chain, i, out_ret) ==
    IF i > Len(chain) THEN [ret |-> out_ret, chain |-> chain, err |-> FALSE]
    ELSE IF is_complete(chain[i]) THEN statusWalk(chain, i + 1, out_ret)
    ELSE LET ret == test(chain[i]) IN
         CASE ret = NIXL_SUCCESS ->
                statusWalk([chain EXCEPT ![i].done = TRUE], i + 1, out_ret)
           [] ret = NIXL_IN_PROG ->
                statusWalk(chain, i + 1, NIXL_IN_PROG)
           [] OTHER ->
                [ret |-> ret, chain |-> chain, err |-> TRUE]

\* A status() that hands back the request whose test failed instead of leaving
\* it on the chain.
statusDropsFailed(chain) ==
    IF chain = <<>>
    THEN [ret |-> NIXL_SUCCESS, chain |-> <<>>, err |-> FALSE, freed |-> <<>>,
          bufs |-> 0]
    ELSE LET w    == statusWalk(chain, 1, NIXL_SUCCESS)
             done == SelectSeq(w.chain, LAMBDA r : is_complete(r))
             bad  == SelectSeq(w.chain, LAMBDA r : r.st = "err")
         IN
         IF w.err
         THEN [ret   |-> w.ret,
               chain |-> SelectSeq(w.chain, LAMBDA r : r.st # "err"),
               err   |-> TRUE,
               freed |-> [i \in DOMAIN bad |-> reqRelease(bad[i], FALSE)],
               bufs  |-> Buffers(bad)]
         ELSE [ret   |-> w.ret,
               chain |-> Reverse(SelectSeq(w.chain, LAMBDA r : ~is_complete(r))),
               err   |-> FALSE,
               freed |-> [i \in DOMAIN done |-> reqRelease(done[i], FALSE)],
               bufs  |-> Buffers(done)]

\* A status() that appends back every request of the chain, the completed
\* ones included, and hands none back.
statusKeepsAll(chain) ==
    IF chain = <<>>
    THEN [ret |-> NIXL_SUCCESS, chain |-> <<>>, err |-> FALSE, freed |-> <<>>,
          bufs |-> 0]
    ELSE LET w == statusWalk(chain, 1, NIXL_SUCCESS) IN
         IF w.err
         THEN [ret |-> w.ret, chain |-> w.chain, err |-> TRUE, freed |-> <<>>,
               bufs |-> 0]
         ELSE [ret |-> w.ret, chain |-> Reverse(w.chain), err |-> FALSE,
               freed |-> <<>>, bufs |-> 0]

\* nixlUcxBackendH::status.  After a walk without failure the completed
\* requests are reset and released; the others are appended back one by one,
\* each in front of the ones before it.  freed: the requests as they are
\* given to reqRelease; bufs: the buffers the resets deleted.
status(chain) ==
    IF chain = <<>>
    THEN [ret |-> NIXL_SUCCESS, chain |-> <<>>, err |-> FALSE, freed |-> <<>>,
          bufs |-> 0]
    ELSE LET w    == statusWalk(chain, 1, NIXL_SUCCESS)
             done == SelectSeq(w.chain, LAMBDA r : is_complete(r))
         IN
         IF w.err
         THEN [ret |-> w.ret, chain |-> w.chain, err |-> TRUE, freed |-> <<>>,
               bufs |-> 0]
         ELSE [ret   |-> w.ret,
               chain |-> Reverse(SelectSeq(w.chain, LAMBDA r : ~is_complete(r))),
               err   |-> FALSE,
               freed |-> [i \in DOMAIN done |-> reqRelease(done[i], FALSE)],
               bufs  |-> Buffers(done)]

\* A _retHelper that does not append the request of a pending operation.
_retHelperForgets(ret, chain, req) ==
    CASE ret = NIXL_IN_PROG ->
             [err |-> FALSE, chain |-> chain, freed |-> <<>>, bufs |-> 0]
      [] ret = NIXL_SUCCESS ->
             [err |-> FALSE, chain |-> chain, freed |-> <<>>, bufs |-> 0]
      [] OTHER ->
             [err |-> TRUE, chain |-> release(chain).chain,
              freed |-> release(chain).freed, bufs |-> release(chain).bufs]

\* A _retHelper that reports a failed operation and leaves the chain alone.
_retHelperNoRelease(ret, chain, req) ==
    CASE ret = NIXL_IN_PROG ->
             [err |-> FALSE, chain |-> link(chain, req), freed |-> <<>>, bufs |-> 0]
      [] ret = NIXL_SUCCESS ->
             [err |-> FALSE, chain |-> chain, freed |-> <<>>, bufs |-> 0]
      [] OTHER ->
             [err |-> TRUE, chain |-> chain, freed |-> <<>>, bufs |-> 0]

\* _retHelper: a pending operation's request is appended, a completed one
\* leaves nothing, a failed one releases everything appended so far.
_retHelper(ret, chain, req) ==
    CASE ret = NIXL_IN_PROG ->
             [err |-> FALSE, chain |-> link(chain, req), freed |-> <<>>, bufs |-> 0]
      [] ret = NIXL_SUCCESS ->
             [err |-> FALSE, chain |-> chain, freed |-> <<>>, bufs |-> 0]
      [] OTHER ->
             [err |-> TRUE, chain |-> release(chain).chain,
              freed |-> release(chain).freed, bufs |-> release(chain).bufs]

(***************************************************************************)
(* Endpoints and connections (nixlUcxConnection: remoteAgent, connected,   *)
(* eps with eps[i] the endpoint of worker i).                              *)
(***************************************************************************)
MaxEps == MaxLoads * NumWorkers
EpIds  == 1 .. MaxEps

\* conn.getEp(worker_id)
getEp(conn, w) == conn.eps[w + 1]

(***************************************************************************)
(* nixlSerDes: addStr appends a tagged value, getStr returns the value of  *)
(* the first entry with the tag.                                           *)
(***************************************************************************)
addStr(buf, tag, str) == Append(buf, <<tag, str>>)

getStr(buf, tag) ==
    IF \E i \in DOMAIN buf : buf[i][1] = tag
    THEN buf[CHOOSE i \in DOMAIN buf :
                 buf[i][1] = tag /\ \A j \in 1 .. (i - 1) : buf[j][1] # tag][2]
    ELSE ""

\* nixlUcxEngine::notifSendPriv.  out is what sendAm returns.  The message is
\* on the wire unless sendAm failed; a pending send keeps the serialized
\* buffer attached to its request (amBuffer).
notifSendPriv(remote_agent, msg, out, w) ==
    IF remoteConnMap[remote_agent] = NoConn
    THEN [ret |-> NIXL_ERR_NOT_FOUND, ep |-> 0, am |-> NoAm]
    ELSE LET conn    == remoteConnMap[remote_agent]
             ser_msg == addStr(addStr(<<>>, "name", localAgent), "msg", msg)
         IN  [ret |-> out,
              ep  |-> getEp(conn, w),
              am  |-> IF out \in {NIXL_SUCCESS, NIXL_IN_PROG}
                      THEN [op |-> NOTIF_STR, rndv |-> FALSE, data |-> ser_msg]
                      ELSE NoAm]

(***************************************************************************)
(* The worker of a transport call on handle s made by a thread whose hash  *)
(* modulo the number of workers is caller.                                 *)
(***************************************************************************)
\* nixlUcxEngine::getWorkerId(): the worker of the calling thread.
nixlUcxEngine_getWorkerId(s, caller) == caller

\* nixlUcxBackendH::getWorkerId(), and eng.getWorker(worker_id) in status()
\* and release(): the worker the handle was constructed with.
nixlUcxBackendH_getWorkerId(s, caller) == worker_id[s]

(***************************************************************************)
(* nixlUcxEngine::postXfer.  outs[i] is what the read/write of descriptor  *)
(* pair i returns, outs[n+1] what flushEp returns, outs[n+2] what sendAm   *)
(* returns.  The result: the status returned, the handle's chain, the      *)
(* one-sided operations issued without failure (issued), the calls made on *)
(* the registration's endpoint (epOps), the message put on the wire (am),  *)
(* whether the closing status() saw a failed test (err), whether a failed   *)
(* operation made _retHelper release the chain (rel), and the number of    *)
(* requests the call appended and left on the chain (app).                 *)
(***************************************************************************)
\* A descriptor loop that issues the operation of a pair without comparing
\* the two lengths.
RECURSIVE postLoopAnyLen(_, _, _, _, _, _)
postLoopAnyLen(i, operation, local, remote, outs, chain) ==
    IF i > Len(local)
    THEN [ret |-> None, chain |-> chain, issued |-> i - 1, epOps |-> i - 1,
          rel |-> FALSE, freed |-> <<>>, bufs |-> 0]
    ELSE IF operation \notin {NIXL_READ, NIXL_WRITE}
    THEN [ret |-> NIXL_ERR_INVALID_PARAM, chain |-> chain,
          issued |-> i - 1, epOps |-> i - 1, rel |-> FALSE, freed |-> <<>>,
          bufs |-> 0]
    ELSE LET h == _retHelper(outs[i], chain, nixlUcxIntReq("rw", FALSE)) IN
         IF h.err
         THEN [ret |-> outs[i], chain |-> h.chain, issued |-> i - 1, epOps |-> i,
               rel |-> TRUE, freed |-> h.freed, bufs |-> h.bufs]
         ELSE postLoopAnyLen(i + 1, operation, local, remote, outs, h.chain)

\* The loop of postXfer over the descriptor pairs, from pair i on.
RECURSIVE postLoop(_, _, _, _, _, _)
postLoop(i, operation, local, remote, outs, chain) ==
    IF i > Len(local)
    THEN [ret |-> None, chain |-> chain, issued |-> i - 1, epOps |-> i - 1,
          rel |-> FALSE, freed |-> <<>>, bufs |-> 0]
    ELSE IF local[i] # remote[i]
    THEN [ret |-> NIXL_ERR_INVALID_PARAM, chain |-> chain,
          issued |-> i - 1, epOps |-> i - 1, rel |-> FALSE, freed |-> <<>>,
          bufs |-> 0]
    ELSE IF operation \notin {NIXL_READ, NIXL_WRITE}
    THEN [ret |-> NIXL_ERR_INVALID_PARAM, chain |-> chain,
          issued |-> i - 1, epOps |-> i - 1, rel |-> FALSE, freed |-> <<>>,
          bufs |-> 0]
    ELSE LET h == _retHelper(outs[i], chain, nixlUcxIntReq("rw", FALSE)) IN
         IF h.err
         THEN [ret |-> outs[i], chain |-> h.chain, issued |-> i - 1, epOps |-> i,
               rel |-> TRUE, freed |-> h.freed, bufs |-> h.bufs]
         ELSE postLoop(i + 1, operation, local, remote, outs, h.chain)

\* A postXfer that sends the notification before it flushes the endpoint.
postXfer_callsAmFirst(k, flushed, sent, w) ==
    [j \in 1 .. k |-> [call |-> "read/write", pair |-> j, worker |-> w]]
    \o (IF sent THEN <<[call |-> "sendAm", pair |-> 0, worker |-> w]>> ELSE <<>>)
    \o (IF flushed THEN <<[call |-> "flushEp", pair |-> 0, worker |-> w]>> ELSE <<>>)

\* The transport calls of one postXfer on worker w, in the order its
\* statements make them: the read or write of pairs 1 .. k, then flushEp if
\* the loop has ended (flushed), then sendAm if notifSendPriv has reached it
\* (sent).
postXfer_calls(k, flushed, sent, w) ==
    [j \in 1 .. k |-> [call |-> "read/write", pair |-> j, worker |-> w]]
    \o (IF flushed THEN <<[call |-> "flushEp", pair |-> 0, worker |-> w]>> ELSE <<>>)
    \o (IF sent THEN <<[call |-> "sendAm", pair |-> 0, worker |-> w]>> ELSE <<>>)

\* The calls among the first k of outs that the transport left in progress:
\* each of them has handed out a request slot.
InProg(outs, k) == Cardinality({j \in 1 .. k : outs[j] = NIXL_IN_PROG})

postXfer(s, workerId, operation, local, remote, remote_agent, hasNotif, msg, outs) ==
    LET n  == Len(local)
        w  == workerId
        lp == IF Len(local) # Len(remote)
              THEN [ret |-> NIXL_ERR_INVALID_PARAM, chain |-> head[s],
                    issued |-> 0, epOps |-> 0, rel |-> FALSE, freed |-> <<>>,
                    bufs |-> 0]
              ELSE postLoop(1, operation, local, remote, outs, head[s])
        fl == _retHelper(outs[n + 1], lp.chain, nixlUcxIntReq("flush", FALSE))
        ns == notifSendPriv(remote_agent, msg, outs[n + 2], w)
        nh == _retHelper(ns.ret, fl.chain, nixlUcxIntReq("am", TRUE))
        pre == IF hasNotif THEN nh.chain ELSE fl.chain
        st == status(pre)
        \* sendAm was called, and left in progress with the buffer attached
        sent == hasNotif /\ ns.ep # 0
        kept == IF sent /\ ns.ret = NIXL_IN_PROG THEN 1 ELSE 0
    IN  IF lp.ret # None
        THEN [ret |-> lp.ret, chain |-> lp.chain, issued |-> lp.issued,
              epOps |-> lp.epOps, am |-> NoAm, amEp |-> 0, err |-> FALSE,
              rel |-> lp.rel,
              app |-> IF lp.rel THEN 0 ELSE Len(lp.chain) - Len(head[s]),
              end |-> FALSE,
              calls |-> postXfer_calls(lp.epOps, FALSE, FALSE, w),
              alloc |-> InProg(outs, lp.epOps),
              freed |-> lp.freed, bufNew |-> 0, bufs |-> lp.bufs]
        ELSE IF fl.err
        THEN [ret |-> outs[n + 1], chain |-> fl.chain, issued |-> lp.issued,
              epOps |-> lp.epOps + 1, am |-> NoAm, amEp |-> 0, err |-> FALSE,
              rel |-> TRUE, app |-> 0, end |-> FALSE,
              calls |-> postXfer_calls(lp.epOps, TRUE, FALSE, w),
              alloc |-> InProg(outs, n + 1),
              freed |-> fl.freed, bufNew |-> 0, bufs |-> fl.bufs]
        ELSE IF hasNotif /\ nh.err
        THEN [ret |-> ns.ret, chain |-> nh.chain, issued |-> lp.issued,
              epOps |-> lp.epOps + 1, am |-> NoAm, amEp |-> ns.ep, err |-> FALSE,
              rel |-> TRUE, app |-> 0, end |-> FALSE,
              calls |-> postXfer_calls(lp.epOps, TRUE, sent, w),
              alloc |-> InProg(outs, n + 1),
              freed |-> nh.freed, bufNew |-> 0, bufs |-> nh.bufs]
        ELSE [ret |-> st.ret, chain |-> st.chain, issued |-> lp.issued,
              epOps |-> lp.epOps + 1,
              am |-> IF hasNotif THEN ns.am ELSE NoAm,
              amEp |-> IF hasNotif THEN ns.ep ELSE 0, err |-> st.err,
              rel |-> FALSE, app |-> Len(pre) - Len(head[s]), end |-> TRUE,
              calls |-> postXfer_calls(lp.epOps, TRUE, sent, w),
              alloc |-> InProg(outs, n + 1) + kept,
              freed |-> st.freed, bufNew |-> kept, bufs |-> st.bufs]

\* The descriptor lists a caller can pass: the lengths of their descriptors.
DescLists == UNION {[1 .. n -> Lens] : n \in 1 .. MaxDesc}

\* A transport operation issued on endpoint e uses a torn-down endpoint.
OnClosedEp(e) == e \in EpIds /\ epState[e].st = "closed"

(***************************************************************************)
(* The UCX engine's transfer operations.                                   *)
(***************************************************************************)
\* nixlUcxEngine::prepXfer: a new handle pinned to worker w = getWorkerId(),
\* the hash of the calling thread modulo the number of workers.  The lists
\* (their memory kinds local_mem and remote_mem) are not looked at.
Ucx_prepXfer(s, w, local_mem, remote_mem) ==
    /\ engine = "UCX"
    /\ hXfer[s] = 0
    /\ nXfers < MaxXfers
    /\ opWorkers' = [opWorkers EXCEPT ![s] = {}]
    /\ postInfo' = [postInfo EXCEPT ![s] = NoPost]
    /\ prepHist' = [engine |-> engine, local |-> local_mem, remote |-> remote_mem,
                    agent |-> None, ret |-> NIXL_SUCCESS, made |-> TRUE]
    /\ nXfers' = nXfers + 1
    /\ hXfer' = [hXfer EXCEPT ![s] = nXfers + 1]
    /\ worker_id' = [worker_id EXCEPT ![s] = w]
    /\ head' = [head EXCEPT ![s] = <<>>]
    /\ checkHist' = [checkHist EXCEPT ![s] = None]
    /\ postHist' = [postHist EXCEPT ![s] = None]
    /\ errSeen' = [errSeen EXCEPT ![s] = FALSE]
    /\ errEver' = [errEver EXCEPT ![s] = FALSE]
    /\ hPosts' = [hPosts EXCEPT ![s] = 0]
    /\ relHist' = NoRel
    /\ UNCHANGED <<engine, nPosts, unseen, completed_, status_, pendingCb, uafWrite>>
    /\ UNCHANGED pthrVars
    /\ UNCHANGED <<slotVars, raceVars>>
    /\ UNCHANGED <<connVars, notifVars, regVars>>

Ucx_postXfer(s, caller, operation, local, remote, remote_agent, m, hasNotif, outs) ==
    /\ engine = "UCX"
    /\ hXfer[s] # 0
    /\ rmd[m] # NoMd
    /\ nPosts[s] < MaxPosts
    /\ hasNotif => nSent < MaxNotifs
    /\ \E r \in {postXfer(s, nixlUcxBackendH_getWorkerId(s, caller), operation,
                          local, remote, remote_agent, hasNotif, nSent + 1, outs)} :
       LET x  == hXfer[s]
           w  == nixlUcxBackendH_getWorkerId(s, caller)
           nw == IF operation = NIXL_WRITE THEN r.issued ELSE 0
           k  == IF Len(local) < Len(remote) THEN Len(local) ELSE Len(remote)
           nd == r.epOps + (IF r.amEp # 0 THEN 1 ELSE 0)
           \* the operations issued that the transport left in progress
           np == Cardinality({i \in 1 .. r.epOps : outs[i] = NIXL_IN_PROG})
                 + (IF r.amEp # 0 /\ outs[Len(local) + 2] = NIXL_IN_PROG
                    THEN 1 ELSE 0)
       IN  \* the transport reports a flush complete at once only when
           \* nothing it has to wait for is outstanding
           /\ outs[Len(local) + 1] = NIXL_SUCCESS => unseen[x] + nw = 0
           /\ opWorkers' = [opWorkers EXCEPT ![s] =
                                IF nd > 0 THEN @ \cup {<<caller, w>>} ELSE @]
           /\ postInfo' = [postInfo EXCEPT ![s] =
                  [n      |-> Len(local),
                   mism   |-> \E i \in 1 .. k : local[i] # remote[i],
                   ops    |-> IF r.rel THEN "failed"
                              ELSE IF np > 0 THEN "pending"
                              ELSE IF r.end THEN "allsync" ELSE "failed",
                   disp   |-> nd,
                   ref    |-> None,
                   failed |-> FALSE,
                   calls  |-> r.calls,
                   notif  |-> hasNotif]]
           /\ prepHist' = NoPrep
           /\ head' = [head EXCEPT ![s] = r.chain]
           /\ nPosts' = [nPosts EXCEPT ![s] = @ + 1]
           /\ hPosts' = [hPosts EXCEPT ![s] = @ + 1]
           /\ checkHist' = [checkHist EXCEPT ![s] = None]
           /\ unseen' = [unseen EXCEPT ![x] = @ + nw]
           /\ postHist' = [postHist EXCEPT ![s] = r.ret]
           /\ errSeen' = [errSeen EXCEPT ![s] = (@ /\ ~r.rel) \/ r.err]
           /\ amChan' = IF r.am = NoAm THEN amChan
                        ELSE [amChan EXCEPT ![w] =
                                 Append(@, [op |-> r.am.op, rndv |-> r.am.rndv,
                                            data |-> r.am.data, xfer |-> x])]
           /\ nSent' = IF r.am = NoAm THEN nSent ELSE nSent + 1
           /\ held' = [held EXCEPT ![s] = @ + r.alloc - Len(r.freed)]
           /\ poolDirty' = poolDirty \cup Dirty("postXfer", r.freed)
           /\ cancelMiss' = cancelMiss \cup Miscancelled("postXfer", r.freed)
           /\ liveBufs' = liveBufs + r.bufNew - r.bufs
           /\ closedUse' = (closedUse
                            \/ (r.epOps > 0 /\ OnClosedEp(getEp(rmd[m].conn, w)))
                            \/ OnClosedEp(r.amEp))
    /\ UNCHANGED <<engine, nXfers, hXfer, worker_id, completed_, status_, pendingCb,
                   errEver, relHist, uafWrite>>
    /\ UNCHANGED <<remoteConnMap, nEps, epState, rmd, connHist, nCalls>>
    /\ UNCHANGED <<amHist, pthrOn, rxQueue, nGets, notifMainList, notifPthrPriv, notifPthr,
                   cbRan, gotNotifs, lastGot, earlyNotif>>
    /\ UNCHANGED pthrVars
    /\ UNCHANGED raceVars
    /\ UNCHANGED regVars

\* nixlUcxEngine::checkXfer, called by a thread whose hash is caller.
Ucx_checkXfer(s, caller) ==
    /\ engine = "UCX"
    /\ hXfer[s] # 0
    /\ \E r \in {status(head[s])} :
       LET w == nixlUcxBackendH_getWorkerId(s, caller)
       IN  /\ head' = [head EXCEPT ![s] = r.chain]
           /\ checkHist' = [checkHist EXCEPT ![s] = r.ret]
           /\ opWorkers' = [opWorkers EXCEPT ![s] =
                                IF head[s] # <<>> THEN @ \cup {<<caller, w>>} ELSE @]
           /\ prepHist' = NoPrep
           /\ UNCHANGED postInfo
           /\ errSeen' = [errSeen EXCEPT ![s] = @ \/ r.err]
           /\ errEver' = [errEver EXCEPT ![s] = @ \/ r.err]
           /\ held' = [held EXCEPT ![s] = @ - Len(r.freed)]
           /\ poolDirty' = poolDirty \cup Dirty("checkXfer", r.freed)
           /\ cancelMiss' = cancelMiss \cup Miscancelled("checkXfer", r.freed)
           /\ liveBufs' = liveBufs - r.bufs
    /\ UNCHANGED <<engine, nXfers, hXfer, worker_id, nPosts, hPosts, unseen,
                   completed_, status_, pendingCb, postHist, relHist, uafWrite>>
    /\ UNCHANGED pthrVars
    /\ UNCHANGED raceVars
    /\ UNCHANGED <<connVars, notifVars, regVars>>

\* nixlUcxEngine::releaseReqH, called by a thread whose hash is caller:
\* release() and delete.
Ucx_releaseReqH(s, caller) ==
    /\ engine = "UCX"
    /\ hXfer[s] # 0
    /\ \E r \in {release(head[s])} :
       LET w == nixlUcxBackendH_getWorkerId(s, caller)
       IN  /\ head' = [head EXCEPT ![s] = r.chain]
           /\ opWorkers' = [opWorkers EXCEPT ![s] =
                                IF head[s] # <<>> THEN @ \cup {<<caller, w>>} ELSE @]
           /\ postInfo' = [postInfo EXCEPT ![s] = NoPost]
           /\ prepHist' = NoPrep
           /\ relHist' = [ret |-> r.ret, engine |-> engine,
                          last |-> IF checkHist[s] # None THEN checkHist[s]
                                   ELSE postHist[s],
                          left |-> r.released]
           /\ held' = [held EXCEPT ![s] = @ - Len(r.freed)]
           /\ poolDirty' = poolDirty \cup Dirty("releaseReqH", r.freed)
           /\ cancelMiss' = cancelMiss \cup Miscancelled("releaseReqH", r.freed)
           /\ liveBufs' = liveBufs - r.bufs
    /\ hXfer' = [hXfer EXCEPT ![s] = 0]
    /\ checkHist' = [checkHist EXCEPT ![s] = None]
    /\ postHist' = [postHist EXCEPT ![s] = None]
    /\ errSeen' = [errSeen EXCEPT ![s] = FALSE]
    /\ errEver' = [errEver EXCEPT ![s] = FALSE]
    /\ hPosts' = [hPosts EXCEPT ![s] = 0]
    /\ UNCHANGED <<engine, nXfers, worker_id, nPosts, unseen, completed_, status_,
                   pendingCb, uafWrite>>
    /\ UNCHANGED pthrVars
    /\ UNCHANGED raceVars
    /\ UNCHANGED <<connVars, notifVars, regVars>>

(***************************************************************************)
(* The transport, between the engine's calls.                              *)
(***************************************************************************)
\* A pending request completes or fails.  A flush completes only once every
\* write of its transfer is at the target.
ReqCompletes(s, i, res) ==
    /\ engine = "UCX"
    /\ hXfer[s] # 0
    /\ i \in DOMAIN head[s]
    /\ head[s][i].st = "pending"
    /\ (head[s][i].kind = "flush" /\ res = "ok") => unseen[hXfer[s]] = 0
    /\ head' = [head EXCEPT ![s][i].st = res]
    /\ UNCHANGED <<engine, nXfers, hXfer, worker_id, nPosts, hPosts, unseen,
                   completed_, status_, pendingCb, checkHist, postHist, errSeen,
                   errEver, relHist, uafWrite>>
    /\ UNCHANGED pthrVars
    /\ UNCHANGED <<slotVars, raceVars>>
    /\ UNCHANGED <<connVars, notifVars, regVars, callVars>>

\* One write of transfer x arrives in the target memory.
WriteLands(x) ==
    /\ unseen[x] > 0
    /\ unseen' = [unseen EXCEPT ![x] = @ - 1]
    /\ UNCHANGED <<engine, nXfers, hXfer, worker_id, head, nPosts, hPosts,
                   completed_, status_, pendingCb, checkHist, postHist, errSeen,
                   errEver, relHist, uafWrite>>
    /\ UNCHANGED pthrVars
    /\ UNCHANGED <<slotVars, raceVars>>
    /\ UNCHANGED <<connVars, notifVars, regVars, callVars>>

(***************************************************************************)
(* Connection management.  Each operator is the function's effect on the   *)
(* connection table and the endpoints, with what it returns.               *)
(***************************************************************************)
\* getWorker(i)->disconnect_nb(ep) for every endpoint eps[i+1] of a connection.
disconnect_nb(eps_state, eps) ==
    [e \in EpIds |->
        IF \E i \in DOMAIN eps : eps[i] = e
        THEN [st |-> "closed", worker |-> eps_state[e].worker,
              closedBy |-> (CHOOSE i \in DOMAIN eps : eps[i] = e) - 1]
        ELSE eps_state[e]]

\* uw->connect() on the workers in order: the endpoints it creates when the
\* call on worker k fails (k = NumWorkers: none fails).
newEps(k) == [i \in 1 .. (IF k < NumWorkers THEN k ELSE NumWorkers) |-> nEps + i]

created(eps_state, eps) ==
    [e \in EpIds |->
        IF \E i \in DOMAIN eps : eps[i] = e
        THEN [st |-> "open", worker |-> (CHOOSE i \in DOMAIN eps : eps[i] = e) - 1,
              closedBy |-> None]
        ELSE eps_state[e]]

\* A loadRemoteConnInfo that returns on a failed uw->connect() without
\* disconnecting the endpoints it has created.
loadRemoteConnInfoLeaks(remote_agent, k) ==
    LET eps == newEps(k) IN
    IF remoteConnMap[remote_agent] # NoConn
    THEN [ret |-> NIXL_ERR_INVALID_PARAM, map |-> remoteConnMap,
          eps_state |-> epState, eps |-> <<>>]
    ELSE IF k < NumWorkers
    THEN [ret |-> NIXL_ERR_BACKEND, map |-> remoteConnMap,
          eps_state |-> created(epState, eps), eps |-> eps]
    ELSE [ret |-> NIXL_SUCCESS,
          map |-> [remoteConnMap EXCEPT ![remote_agent] =
                     [remoteAgent |-> remote_agent, connected |-> FALSE,
                      eps |-> eps]],
          eps_state |-> created(epState, eps), eps |-> eps]

\* nixlUcxEngine::loadRemoteConnInfo
loadRemoteConnInfo(remote_agent, k) ==
    LET eps == newEps(k) IN
    IF remoteConnMap[remote_agent] # NoConn
    THEN [ret |-> NIXL_ERR_INVALID_PARAM, map |-> remoteConnMap,
          eps_state |-> epState, eps |-> <<>>]
    ELSE IF k < NumWorkers
    THEN [ret |-> NIXL_ERR_BACKEND, map |-> remoteConnMap,
          eps_state |-> disconnect_nb(created(epState, eps), eps), eps |-> eps]
    ELSE [ret |-> NIXL_SUCCESS,
          map |-> [remoteConnMap EXCEPT ![remote_agent] =
                     [remoteAgent |-> remote_agent, connected |-> FALSE,
                      eps |-> eps]],
          eps_state |-> created(epState, eps), eps |-> eps]

\* An endConn that closes the endpoints and keeps the agent in the table.
endConnKeeps(remote_agent, dnFail) ==
    IF remoteConnMap[remote_agent] = NoConn
    THEN [ret |-> NIXL_ERR_NOT_FOUND, map |-> remoteConnMap, eps_state |-> epState]
    ELSE [ret |-> IF dnFail THEN NIXL_ERR_BACKEND ELSE NIXL_SUCCESS,
          map |-> remoteConnMap,
          eps_state |-> disconnect_nb(epState, remoteConnMap[remote_agent].eps)]

\* nixlUcxEngine::endConn.  dnFail: some disconnect_nb reported a failure.
endConn(remote_agent, dnFail) ==
    IF remoteConnMap[remote_agent] = NoConn
    THEN [ret |-> NIXL_ERR_NOT_FOUND, map |-> remoteConnMap, eps_state |-> epState]
    ELSE [ret |-> IF dnFail THEN NIXL_ERR_BACKEND ELSE NIXL_SUCCESS,
          map |-> [remoteConnMap EXCEPT ![remote_agent] = NoConn],
          eps_state |-> disconnect_nb(epState, remoteConnMap[remote_agent].eps)]

\* The first loop of connect: sendAm on the workers in order, stopping at
\* the first failure.  The number of sends that did not fail.
RECURSIVE submitted(_, _)
submitted(outs, i) ==
    IF i > NumWorkers THEN NumWorkers
    ELSE IF outs[i] \notin {NIXL_SUCCESS, NIXL_IN_PROG} THEN i - 1
    ELSE submitted(outs, i + 1)

\* nixlUcxEngine::connect.  outs[i+1] is what sendAm returns on worker i; k is
\* the worker whose uw->connect() fails when the agent is the local one.
connect(remote_agent, outs, k) ==
    IF remote_agent = localAgent
    THEN LET r == loadRemoteConnInfo(remote_agent, k) IN
         [ret |-> r.ret, map |-> r.map, eps_state |-> r.eps_state, eps |-> r.eps,
          am |-> None]
    ELSE IF remoteConnMap[remote_agent] = NoConn
    THEN [ret |-> NIXL_ERR_NOT_FOUND, map |-> remoteConnMap,
          eps_state |-> epState, eps |-> <<>>, am |-> None]
    ELSE LET error == submitted(outs, 1) < NumWorkers IN
         [ret |-> IF error THEN NIXL_SUCCESS ELSE NIXL_ERR_BACKEND,
          map |-> remoteConnMap, eps_state |-> epState,
          eps |-> SubSeq(remoteConnMap[remote_agent].eps, 1,
                         IF error THEN submitted(outs, 1) + 1 ELSE NumWorkers),
          am |-> IF error THEN "failed" ELSE "all"]

\* nixlUcxEngine::disconnect: a DISCONNECT message on every worker's endpoint
\* of a remote agent, whatever the sends return, then endConn, whose status is
\* dropped.
disconnect(remote_agent, dnFail) ==
    IF remote_agent # localAgent /\ remoteConnMap[remote_agent] = NoConn
    THEN [ret |-> NIXL_ERR_NOT_FOUND, map |-> remoteConnMap,
          eps_state |-> epState, eps |-> <<>>, am |-> None]
    ELSE LET e == endConn(remote_agent, dnFail) IN
         [ret |-> NIXL_SUCCESS, map |-> e.map, eps_state |-> e.eps_state,
          eps |-> remoteConnMap[remote_agent].eps,
          am |-> IF remote_agent # localAgent THEN "all" ELSE None]

\* An internalMDHelper that imports every key on worker 0's endpoint.
internalMDHelperOneEp(agent, kfail) ==
    IF remoteConnMap[agent] = NoConn
    THEN [ret |-> NIXL_ERR_NOT_FOUND, md |-> NoMd]
    ELSE IF kfail < NumWorkers
    THEN [ret |-> NIXL_ERR_BACKEND, md |-> NoMd]
    ELSE LET conn == remoteConnMap[agent] IN
         [ret |-> NIXL_SUCCESS,
          md  |-> [conn |-> conn,
                   rkeys |-> [i \in 1 .. NumWorkers |-> getEp(conn, 0)]]]

\* nixlUcxEngine::internalMDHelper.  kfail is the worker whose rkeyImport
\* fails (NumWorkers: none).  The metadata keeps a copy of the connection;
\* rkey i is imported on the connection's endpoint of worker i.
internalMDHelper(agent, kfail) ==
    IF remoteConnMap[agent] = NoConn
    THEN [ret |-> NIXL_ERR_NOT_FOUND, md |-> NoMd]
    ELSE IF kfail < NumWorkers
    THEN [ret |-> NIXL_ERR_BACKEND, md |-> NoMd]
    ELSE LET conn == remoteConnMap[agent] IN
         [ret |-> NIXL_SUCCESS,
          md  |-> [conn |-> conn,
                   rkeys |-> [i \in 1 .. NumWorkers |-> getEp(conn, i - 1)]]]

FailAt == 0 .. NumWorkers

Ucx_loadRemoteConnInfo(remote_agent, k) ==
    /\ engine = "UCX"
    /\ nCalls < MaxCalls
    /\ nEps + NumWorkers <= MaxEps
    /\ LET r == loadRemoteConnInfo(remote_agent, k)
       IN  /\ remoteConnMap' = r.map
           /\ epState' = r.eps_state
           /\ nEps' = nEps + Len(r.eps)
           /\ connHist' = [n |-> nCalls + 1, op |-> "loadRemoteConnInfo",
                           agent |-> remote_agent,
                           found |-> remoteConnMap[remote_agent] # NoConn,
                           ret |-> r.ret, eps |-> r.eps, k |-> k, am |-> None]
    /\ nCalls' = nCalls + 1
    /\ UNCHANGED <<rmd, closedUse>>
    /\ UNCHANGED pthrVars
    /\ UNCHANGED <<slotVars, raceVars>>
    /\ UNCHANGED <<xferVars, notifVars, regVars, callVars>>

Ucx_connect(remote_agent, outs, k) ==
    /\ engine = "UCX"
    /\ nCalls < MaxCalls
    /\ remote_agent = localAgent => nEps + NumWorkers <= MaxEps
    /\ LET r == connect(remote_agent, outs, k)
       IN  /\ remoteConnMap' = r.map
           /\ epState' = r.eps_state
           /\ nEps' = IF remote_agent = localAgent THEN nEps + Len(r.eps) ELSE nEps
           /\ connHist' = [n |-> nCalls + 1, op |-> "connect",
                           agent |-> remote_agent,
                           found |-> remoteConnMap[remote_agent] # NoConn,
                           ret |-> r.ret, eps |-> r.eps, k |-> k, am |-> r.am]
           /\ closedUse' = (closedUse
                            \/ (r.am # None /\ \E i \in DOMAIN r.eps :
                                                  OnClosedEp(r.eps[i])))
    /\ nCalls' = nCalls + 1
    /\ UNCHANGED rmd
    /\ UNCHANGED pthrVars
    /\ UNCHANGED <<slotVars, raceVars>>
    /\ UNCHANGED <<xferVars, notifVars, regVars, callVars>>

Ucx_disconnect(remote_agent, dnFail) ==
    /\ engine = "UCX"
    /\ nCalls < MaxCalls
    /\ LET r == disconnect(remote_agent, dnFail)
       IN  /\ remoteConnMap' = r.map
           /\ epState' = r.eps_state
           /\ connHist' = [n |-> nCalls + 1, op |-> "disconnect",
                           agent |-> remote_agent,
                           found |-> remoteConnMap[remote_agent] # NoConn,
                           ret |-> r.ret, eps |-> r.eps, k |-> 0, am |-> r.am]
           /\ closedUse' = (closedUse
                            \/ (r.am # None /\ \E i \in DOMAIN r.eps :
                                                  OnClosedEp(r.eps[i])))
    /\ nCalls' = nCalls + 1
    /\ UNCHANGED <<nEps, rmd>>
    /\ UNCHANGED pthrVars
    /\ UNCHANGED <<slotVars, raceVars>>
    /\ UNCHANGED <<xferVars, notifVars, regVars, callVars>>

\* nixlUcxEngine::loadRemoteMD into the caller's variable m.
Ucx_loadRemoteMD(m, remote_agent, kfail) ==
    /\ engine = "UCX"
    /\ rmd[m] = NoMd
    /\ LET r == internalMDHelper(remote_agent, kfail)
       IN  /\ r.ret = NIXL_SUCCESS
           /\ rmd' = [rmd EXCEPT ![m] = r.md]
    /\ UNCHANGED <<remoteConnMap, nEps, epState, connHist, nCalls, closedUse>>
    /\ UNCHANGED pthrVars
    /\ UNCHANGED <<slotVars, raceVars>>
    /\ UNCHANGED <<xferVars, notifVars, regVars, callVars>>

\* nixlUcxEngine::unloadMD
Ucx_unloadMD(m) ==
    /\ engine = "UCX"
    /\ rmd[m] # NoMd
    /\ rmd' = [rmd EXCEPT ![m] = NoMd]
    /\ UNCHANGED <<remoteConnMap, nEps, epState, connHist, nCalls, closedUse>>
    /\ UNCHANGED pthrVars
    /\ UNCHANGED <<slotVars, raceVars>>
    /\ UNCHANGED <<xferVars, notifVars, regVars, callVars>>

(***************************************************************************)
(* Notifications.  The sender is this engine (localAgent); the lists are   *)
(* those of the receiving engine, which the sender's messages reach over   *)
(* one endpoint per sending worker.                                        *)
(***************************************************************************)
\* nixlUcxEngine::genNotif: the request of a pending send is released at once,
\* as notifSendPriv left it (freed), with the serialized buffer it attached
\* (bufNew: the buffers allocated and not deleted).
genNotif(remote_agent, msg, out, w) ==
    LET ns == notifSendPriv(remote_agent, msg, out, w) IN
    [ret |-> IF ns.ret \in {NIXL_IN_PROG, NIXL_SUCCESS} THEN NIXL_SUCCESS ELSE ns.ret,
     ep  |-> ns.ep,
     am  |-> ns.am,
     freed  |-> IF ns.ret = NIXL_IN_PROG THEN <<nixlUcxIntReq("am", TRUE)>>
                ELSE <<>>,
     bufNew |-> IF ns.ret = NIXL_IN_PROG THEN 1 ELSE 0]

Ucx_genNotif(remote_agent, w, out) ==
    /\ engine = "UCX"
    /\ nSent < MaxNotifs
    /\ \E r \in {genNotif(remote_agent, nSent + 1, out, w)} :
           /\ amChan' = IF r.am = NoAm THEN amChan
                        ELSE [amChan EXCEPT ![w] =
                                 Append(@, [op |-> r.am.op, rndv |-> r.am.rndv,
                                            data |-> r.am.data, xfer |-> 0])]
           /\ nSent' = nSent + 1
           /\ closedUse' = (closedUse \/ OnClosedEp(r.ep))
           /\ poolDirty' = poolDirty \cup Dirty("genNotif", r.freed)
           /\ liveBufs' = liveBufs + r.bufNew
    /\ UNCHANGED <<amHist, pthrOn, rxQueue, nGets, notifMainList, notifPthrPriv, notifPthr,
                   cbRan, gotNotifs, lastGot, earlyNotif>>
    /\ UNCHANGED <<remoteConnMap, nEps, epState, rmd, connHist, nCalls>>
    /\ UNCHANGED pthrVars
    /\ UNCHANGED <<held, cancelMiss, raceVars>>
    /\ UNCHANGED <<xferVars, regVars, callVars>>

\* The transport delivers the oldest message of one endpoint to the receiver.
AmArrives(w) ==
    /\ amChan[w] # <<>>
    /\ rxQueue' = Append(rxQueue, Head(amChan[w]))
    /\ amChan' = [amChan EXCEPT ![w] = Tail(@)]
    /\ UNCHANGED <<amHist, pthrOn, nGets, nSent, notifMainList, notifPthrPriv, notifPthr,
                   cbRan, gotNotifs, lastGot, earlyNotif>>
    /\ UNCHANGED pthrVars
    /\ UNCHANGED <<slotVars, raceVars>>
    /\ UNCHANGED <<xferVars, connVars, regVars, callVars>>

\* A notifAmCb that takes every delivery.
notifAmCbAny(am, lists, onPthr) ==
    LET remote_name == getStr(am.data, "name")
        msg         == getStr(am.data, "msg")
    IN  IF onPthr
        THEN [ok |-> TRUE, main |-> lists.main,
              priv |-> Append(lists.priv, <<remote_name, msg>>)]
        ELSE [ok |-> TRUE, main |-> Append(lists.main, <<remote_name, msg>>),
              priv |-> lists.priv]

\* nixlUcxEngine::notifAmCb.  lists = [main, priv]; onPthr is
\* engine->isProgressThread().  A message with another opcode or delivered by
\* rendezvous is rejected and leaves the lists alone.
notifAmCb(am, lists, onPthr) ==
    IF am.op # NOTIF_STR \/ am.rndv
    THEN [ok |-> FALSE, main |-> lists.main, priv |-> lists.priv]
    ELSE LET remote_name == getStr(am.data, "name")
             msg         == getStr(am.data, "msg")
         IN  IF onPthr
             THEN [ok |-> TRUE, main |-> lists.main,
                   priv |-> Append(lists.priv, <<remote_name, msg>>)]
             ELSE [ok |-> TRUE, main |-> Append(lists.main, <<remote_name, msg>>),
                   priv |-> lists.priv]

\* The callbacks of the messages q, in order, on one thread.
RECURSIVE runCallbacks(_, _, _)
runCallbacks(q, lists, onPthr) ==
    IF q = <<>> THEN lists
    ELSE LET r == notifAmCb(Head(q), lists, onPthr)
         IN  runCallbacks(Tail(q), [main |-> r.main, priv |-> r.priv], onPthr)

\* What running the callbacks of the messages q leaves in the ghost variables.
RanOn(q, thr) ==
    [n \in 1 .. MaxNotifs |->
        IF \E i \in DOMAIN q : getStr(q[i].data, "msg") = n THEN thr ELSE cbRan[n]]

Early(q) == \E i \in DOMAIN q : q[i].xfer # 0 /\ unseen[q[i].xfer] > 0

\* A notifCombineHelper that copies the entries and leaves them in src.
notifCombineHelperKeeps(src, tgt) == [src |-> src, tgt |-> tgt \o src]

\* notifCombineHelper and notifProgressCombineHelper: the entries of src are
\* moved to the end of tgt.
notifCombineHelper(src, tgt) == [src |-> <<>>, tgt |-> tgt \o src]

notifProgressCombineHelper(src, tgt) == notifCombineHelper(src, tgt)

\* progressFunc: the progress thread drives the workers; the callbacks of the
\* first j arrived messages run on it.
PthrProgress(j) ==
    /\ pthrOn
    /\ j \in 1 .. Len(rxQueue)
    /\ LET q == SubSeq(rxQueue, 1, j)
           r == runCallbacks(q, [main |-> notifMainList, priv |-> notifPthrPriv], TRUE)
       IN  /\ notifPthrPriv' = r.priv
           /\ notifMainList' = r.main
           /\ cbRan' = RanOn(q, "pthr")
           /\ earlyNotif' = (earlyNotif \/ Early(q))
    /\ rxQueue' = SubSeq(rxQueue, j + 1, Len(rxQueue))
    /\ UNCHANGED <<amHist, pthrOn, amChan, nGets, nSent, notifPthr, gotNotifs, lastGot>>
    /\ UNCHANGED pthrVars
    /\ UNCHANGED <<slotVars, raceVars>>
    /\ UNCHANGED <<xferVars, connVars, regVars, callVars>>

\* nixlUcxEngine::notifProgress, which the progress thread calls after its
\* workers made progress.
notifProgress ==
    /\ pthrOn
    /\ notifPthrPriv # <<>>
    /\ LET r == notifProgressCombineHelper(notifPthrPriv, notifPthr)
       IN  /\ notifPthrPriv' = r.src
           /\ notifPthr' = r.tgt
    /\ UNCHANGED <<amHist, pthrOn, amChan, rxQueue, nGets, nSent, notifMainList, cbRan,
                   gotNotifs, lastGot, earlyNotif>>
    /\ UNCHANGED pthrVars
    /\ UNCHANGED <<slotVars, raceVars>>
    /\ UNCHANGED <<xferVars, connVars, regVars, callVars>>

\* nixlUcxEngine::progress on a caller thread: the callbacks of the first j
\* arrived messages run on it.
Ucx_progress(j) ==
    /\ engine = "UCX"
    /\ j \in 1 .. Len(rxQueue)
    /\ LET q == SubSeq(rxQueue, 1, j)
           r == runCallbacks(q, [main |-> notifMainList, priv |-> notifPthrPriv], FALSE)
       IN  /\ notifPthrPriv' = r.priv
           /\ notifMainList' = r.main
           /\ cbRan' = RanOn(q, "caller")
           /\ earlyNotif' = (earlyNotif \/ Early(q))
    /\ rxQueue' = SubSeq(rxQueue, j + 1, Len(rxQueue))
    /\ UNCHANGED <<amHist, pthrOn, amChan, nGets, nSent, notifPthr, gotNotifs, lastGot>>
    /\ UNCHANGED pthrVars
    /\ UNCHANGED <<slotVars, raceVars>>
    /\ UNCHANGED <<xferVars, connVars, regVars, callVars>>

\* nixlUcxEngine::getNotifs with an empty list.  Without a progress thread it
\* first drives the workers until they report no progress, which runs the
\* callback of every arrived message on the calling thread.
getNotifs ==
    LET q  == IF pthrOn THEN <<>> ELSE rxQueue
        cb == runCallbacks(q, [main |-> notifMainList, priv |-> notifPthrPriv], FALSE)
        m  == notifCombineHelper(cb.main, <<>>)
        t  == notifProgressCombineHelper(notifPthr, m.tgt)
    IN  [ret |-> NIXL_SUCCESS, ran |-> q, main |-> m.src, priv |-> cb.priv,
         pthr |-> t.src, notif_list |-> t.tgt]

Ucx_getNotifs ==
    /\ engine = "UCX"
    /\ nGets < MaxGets
    /\ nGets' = nGets + 1
    /\ LET r == getNotifs
       IN  /\ notifMainList' = r.main
           /\ notifPthrPriv' = r.priv
           /\ notifPthr' = r.pthr
           /\ lastGot' = r.notif_list
           /\ gotNotifs' = gotNotifs \o r.notif_list
           /\ rxQueue' = SubSeq(rxQueue, Len(r.ran) + 1, Len(rxQueue))
           /\ cbRan' = RanOn(r.ran, "caller")
           /\ earlyNotif' = (earlyNotif \/ Early(r.ran))
    /\ UNCHANGED <<amHist, pthrOn, amChan, nSent>>
    /\ UNCHANGED pthrVars
    /\ UNCHANGED <<slotVars, raceVars>>
    /\ UNCHANGED <<xferVars, connVars, regVars, callVars>>

(***************************************************************************)
(* Active messages as the transport hands them to the callback registered  *)
(* for their id: the header carries an opcode of the sender's choice, the  *)
(* delivery is eager or by rendezvous.                                     *)
(***************************************************************************)
MaxAms == 3

UCS_OK                == "UCS_OK"
UCS_ERR_INVALID_PARAM == "UCS_ERR_INVALID_PARAM"

AmOps == {CONN_CHECK, DISCONNECT, NOTIF_STR}

\* nixlUcxEngine::checkConn
checkConn(remote_agent) ==
    IF remoteConnMap[remote_agent] = NoConn THEN NIXL_ERR_NOT_FOUND ELSE NIXL_SUCCESS

\* nixlUcxEngine::connectionCheckAmCb
connectionCheckAmCb(op, rndv, remote_agent) ==
    IF op # CONN_CHECK THEN UCS_ERR_INVALID_PARAM
    ELSE IF rndv THEN UCS_ERR_INVALID_PARAM
    ELSE IF checkConn(remote_agent) # NIXL_SUCCESS THEN UCS_ERR_INVALID_PARAM
    ELSE UCS_OK

\* nixlUcxEngine::connectionTermAmCb
connectionTermAmCb(op, rndv, remote_agent) ==
    IF op # DISCONNECT THEN UCS_ERR_INVALID_PARAM
    ELSE IF rndv THEN UCS_ERR_INVALID_PARAM
    ELSE UCS_OK

Am_connectionCheckAmCb(op, rndv, remote_agent) ==
    /\ engine = "UCX"
    /\ amHist.n < MaxAms
    /\ amHist' = [n |-> amHist.n + 1, cb |-> CONN_CHECK, op |-> op, rndv |-> rndv,
                  agent |-> remote_agent,
                  ret |-> connectionCheckAmCb(op, rndv, remote_agent)]
    /\ UNCHANGED <<pthrOn, amChan, rxQueue, nGets, nSent, notifMainList,
                   notifPthrPriv, notifPthr, cbRan, gotNotifs, lastGot, earlyNotif>>
    /\ UNCHANGED <<xferVars, connVars, regVars, callVars, pthrVars>>
    /\ UNCHANGED <<slotVars, raceVars>>

Am_connectionTermAmCb(op, rndv, remote_agent) ==
    /\ engine = "UCX"
    /\ amHist.n < MaxAms
    /\ amHist' = [n |-> amHist.n + 1, cb |-> DISCONNECT, op |-> op, rndv |-> rndv,
                  agent |-> remote_agent,
                  ret |-> connectionTermAmCb(op, rndv, remote_agent)]
    /\ UNCHANGED <<pthrOn, amChan, rxQueue, nGets, nSent, notifMainList,
                   notifPthrPriv, notifPthr, cbRan, gotNotifs, lastGot, earlyNotif>>
    /\ UNCHANGED <<xferVars, connVars, regVars, callVars, pthrVars>>
    /\ UNCHANGED <<slotVars, raceVars>>

\* notifAmCb for a delivery whose payload is the notification msg of agent
\* remote_agent, on the progress thread (onPthr) or on a caller's thread.
Am_notifAmCb(op, rndv, remote_agent, msg, onPthr) ==
    /\ engine = "UCX"
    /\ amHist.n < MaxAms
    /\ onPthr => pthrOn
    /\ LET data == addStr(addStr(<<>>, "name", remote_agent), "msg", msg)
           r    == notifAmCb([op |-> op, rndv |-> rndv, data |-> data],
                             [main |-> notifMainList, priv |-> notifPthrPriv],
                             onPthr)
       IN  /\ notifMainList' = r.main
           /\ notifPthrPriv' = r.priv
           /\ amHist' = [n |-> amHist.n + 1, cb |-> NOTIF_STR, op |-> op,
                         rndv |-> rndv, agent |-> remote_agent,
                         ret |-> IF r.ok THEN UCS_OK ELSE UCS_ERR_INVALID_PARAM]
    /\ UNCHANGED <<pthrOn, amChan, rxQueue, nGets, nSent, notifPthr, cbRan,
                   gotNotifs, lastGot, earlyNotif>>
    /\ UNCHANGED <<xferVars, connVars, regVars, callVars, pthrVars>>
    /\ UNCHANGED <<slotVars, raceVars>>

(***************************************************************************)
(* The object engine: registrations.  A registration is named by the order *)
(* of its registerMem call; objMd[r] is the nixlObjMetadata made for it,   *)
(* live until deregisterMem deletes it.                                    *)
(***************************************************************************)
MaxRegs == 2

\* Largest remote address (offset in the object) of a descriptor.
MaxAddr == 1

ObjDevIds == {1, 2}

\* mem.metaInfo: empty, or an object key.
MetaInfos == {"", "k"}

\* std::to_string (mem.devId)
to_string(devId) == IF devId = 1 THEN "1" ELSE "2"

NoObjMd == [nixl_mem |-> None, dev_id |-> 0, obj_key |-> "", live |-> FALSE]

\* nixlObjEngine::getSupportedMems
Obj_getSupportedMems == {OBJ_SEG, DRAM_SEG}

\* nixlUcxEngine::getSupportedMems
Ucx_getSupportedMems == {DRAM_SEG, VRAM_SEG}

\* A registerMem that records the key of a registration of any memory kind.
registerMemIndexesAll(devId, metaInfo, nixl_mem) ==
    LET key == IF metaInfo = "" THEN to_string(devId) ELSE metaInfo
    IN  [ret |-> NIXL_SUCCESS,
         md  |-> [nixl_mem |-> nixl_mem, dev_id |-> devId, obj_key |-> key,
                  live |-> TRUE],
         map |-> [dev_id_to_obj_key EXCEPT ![devId] = key]]

\* nixlObjEngine::registerMem: the metadata of an OBJ_SEG registration
\* carries metaInfo, or the device id's decimal string when metaInfo is
\* empty, and the key is recorded under the device id; the obj_key of any
\* other registration stays empty.
registerMem(devId, metaInfo, nixl_mem) ==
    LET key == IF nixl_mem = OBJ_SEG
               THEN (IF metaInfo = "" THEN to_string(devId) ELSE metaInfo)
               ELSE ""
    IN  [ret |-> NIXL_SUCCESS,
         md  |-> [nixl_mem |-> nixl_mem, dev_id |-> devId, obj_key |-> key,
                  live |-> TRUE],
         map |-> IF nixl_mem = OBJ_SEG
                 THEN [dev_id_to_obj_key EXCEPT ![devId] = key]
                 ELSE dev_id_to_obj_key]

\* A deregisterMem that leaves the index as it is.
deregisterMemKeeps(r) ==
    [ret |-> NIXL_SUCCESS,
     md  |-> [objMd[r] EXCEPT !.live = FALSE],
     map |-> dev_id_to_obj_key]

\* nixlObjEngine::deregisterMem: an OBJ_SEG registration's device id is
\* erased from the index; the metadata is deleted.
deregisterMem(r) ==
    [ret |-> NIXL_SUCCESS,
     md  |-> [objMd[r] EXCEPT !.live = FALSE],
     map |-> IF objMd[r].nixl_mem = OBJ_SEG
             THEN [dev_id_to_obj_key EXCEPT ![objMd[r].dev_id] = None]
             ELSE dev_id_to_obj_key]

Obj_registerMem(devId, metaInfo, nixl_mem) ==
    /\ engine = "OBJ"
    /\ nRegs < MaxRegs
    /\ LET r == registerMem(devId, metaInfo, nixl_mem)
       IN  /\ objMd' = [objMd EXCEPT ![nRegs + 1] = r.md]
           /\ dev_id_to_obj_key' = r.map
           /\ regHist' = [r |-> nRegs + 1, kind |-> nixl_mem, ret |-> r.ret,
                          out |-> IF r.md = NoObjMd THEN 0 ELSE nRegs + 1,
                          before |-> dev_id_to_obj_key, after |-> None,
                          done |-> FALSE, dret |-> None]
    /\ nRegs' = nRegs + 1
    /\ UNCHANGED objReq
    /\ UNCHANGED pthrVars
    /\ UNCHANGED <<slotVars, raceVars>>
    /\ UNCHANGED <<xferVars, connVars, notifVars, callVars>>

Obj_deregisterMem(r) ==
    /\ engine = "OBJ"
    /\ objMd[r].live
    /\ LET d == deregisterMem(r)
       IN  /\ objMd' = [objMd EXCEPT ![r] = d.md]
           /\ dev_id_to_obj_key' = d.map
           /\ regHist' = IF regHist.r = r /\ ~regHist.done
                         THEN [regHist EXCEPT !.after = d.map, !.done = TRUE,
                                              !.dret = d.ret]
                         ELSE NoReg
    /\ UNCHANGED <<nRegs, objReq>>
    /\ UNCHANGED pthrVars
    /\ UNCHANGED <<slotVars, raceVars>>
    /\ UNCHANGED <<xferVars, connVars, notifVars, callVars>>

(***************************************************************************)
(* The object engine's transfer operations.                                *)
(***************************************************************************)
\* nixlObjEngine::prepXfer: new nixlObjBackendReqH(); status_ has no
\* initializer.  The operation, the lists (their memory kinds local_mem and
\* remote_mem) and remote_agent are not looked at.
Obj_prepXfer(s, local_mem, remote_mem, remote_agent) ==
    /\ engine = "OBJ"
    /\ hXfer[s] = 0
    /\ nXfers < MaxXfers
    /\ nXfers' = nXfers + 1
    /\ hXfer' = [hXfer EXCEPT ![s] = nXfers + 1]
    /\ completed_' = [completed_ EXCEPT ![s] = FALSE]
    /\ status_' = [status_ EXCEPT ![s] = "uninit"]
    /\ checkHist' = [checkHist EXCEPT ![s] = None]
    /\ postHist' = [postHist EXCEPT ![s] = None]
    /\ hPosts' = [hPosts EXCEPT ![s] = 0]
    /\ relHist' = NoRel
    /\ postInfo' = [postInfo EXCEPT ![s] = NoPost]
    /\ prepHist' = [engine |-> engine, local |-> local_mem, remote |-> remote_mem,
                    agent |-> remote_agent, ret |-> NIXL_SUCCESS, made |-> TRUE]
    /\ objReq' = [objReq EXCEPT ![s] = NoReq]
    /\ UNCHANGED <<engine, worker_id, head, nPosts, unseen, pendingCb, errSeen,
                   errEver, uafWrite, opWorkers>>
    /\ UNCHANGED pthrVars
    /\ UNCHANGED <<slotVars, raceVars>>
    /\ UNCHANGED <<connVars, notifVars, dev_id_to_obj_key, objMd, nRegs, regHist>>

\* The whole object: a request without a Range header.
WholeObject == <<>>

\* Aws::S3::Model::PutObjectRequest as postXfer builds it: bucket and key; the
\* body is local.begin()->len bytes at local.begin()->addr.
PutObjectRequest(obj_key) == [op |-> "PUT", key |-> obj_key, range |-> WholeObject]

\* Aws::S3::Model::GetObjectRequest as postXfer builds it: bucket and key.
GetObjectRequest(obj_key) == [op |-> "GET", key |-> obj_key, range |-> WholeObject]

\* What the caller's remote.begin() refers to: "null" without metadata,
\* "gone" when it names an OBJ_SEG registration whose device id is no longer
\* in the index, else the memory kind of the registration.
remoteRef(r) ==
    IF r = 0 THEN "null"
    ELSE IF objMd[r].nixl_mem = OBJ_SEG /\ dev_id_to_obj_key[objMd[r].dev_id] = None
    THEN "gone"
    ELSE objMd[r].nixl_mem

\* obj_md->obj_key as postXfer reads it through remote.begin()->metadataP.
\* The metadata of a deregistered registration has been deleted: the read
\* finds what was there (readsOld) or other contents, here an empty string.
read_obj_key(r, readsOld) ==
    IF objMd[r].live \/ readsOld THEN objMd[r].obj_key ELSE ""

\* nixlObjEngine::postXfer for lists of n descriptor pairs, the metadata of
\* remote.begin() being that of registration r (0: none), its address addr
\* and the length of local.begin() len: one PutObjectAsync or GetObjectAsync
\* for the first descriptor pair; its completion callback captures the handle
\* pointer.
Obj_postXfer(s, operation, n, r, readsOld, addr, len) ==
    /\ engine = "OBJ"
    /\ hXfer[s] # 0
    /\ nPosts[s] < MaxPosts
    /\ r # 0 => objMd[r] # NoObjMd
    /\ (r = 0 \/ objMd[r].live) => readsOld
    /\ nPosts' = [nPosts EXCEPT ![s] = @ + 1]
    /\ hPosts' = [hPosts EXCEPT ![s] = @ + 1]
    /\ checkHist' = [checkHist EXCEPT ![s] = None]
    /\ prepHist' = NoPrep
    /\ LET obj_key == IF r = 0 THEN "" ELSE read_obj_key(r, readsOld)
           sent    == r # 0 /\ obj_key # "" /\ operation \in {NIXL_WRITE, NIXL_READ}
       IN  /\ IF r = 0 \/ obj_key = ""
              THEN /\ postHist' = [postHist EXCEPT ![s] = NIXL_ERR_INVALID_PARAM]
                   /\ UNCHANGED <<completed_, pendingCb>>
              ELSE /\ completed_' = [completed_ EXCEPT ![s] = FALSE]
                   /\ IF operation \in {NIXL_WRITE, NIXL_READ}
                      THEN /\ pendingCb' = pendingCb \cup
                                  {[slot |-> s, xfer |-> hXfer[s],
                                    k |-> nPosts[s] + 1]}
                           /\ postHist' = [postHist EXCEPT ![s] = NIXL_IN_PROG]
                      ELSE /\ postHist' = [postHist EXCEPT ![s] =
                                              NIXL_ERR_INVALID_PARAM]
                           /\ UNCHANGED pendingCb
           /\ postInfo' = [postInfo EXCEPT ![s] =
                  [n      |-> n,
                   mism   |-> FALSE,
                   ops    |-> IF sent THEN "pending" ELSE "failed",
                   disp   |-> IF sent THEN 1 ELSE 0,
                   ref    |-> remoteRef(r),
                   failed |-> FALSE,
                   calls  |-> <<>>,
                   notif  |-> FALSE]]
           /\ objReq' = [objReq EXCEPT ![s] =
                  LET req == IF ~sent THEN NoReq
                             ELSE IF operation = NIXL_WRITE
                             THEN PutObjectRequest(obj_key)
                             ELSE GetObjectRequest(obj_key)
                  IN  [operation |-> operation, addr |-> addr, len |-> len,
                       op |-> req.op, key |-> req.key, range |-> req.range]]
    /\ UNCHANGED <<engine, nXfers, hXfer, worker_id, head, unseen, status_,
                   errSeen, errEver, relHist, uafWrite, opWorkers>>
    /\ UNCHANGED pthrVars
    /\ UNCHANGED <<slotVars, raceVars>>
    /\ UNCHANGED <<connVars, notifVars, dev_id_to_obj_key, objMd, nRegs, regHist>>

\* The completion callback of PutObjectAsync/GetObjectAsync, on an executor
\* thread: req_h->status_ = ...; req_h->completed_ = true.  req_h is the raw
\* pointer captured at postXfer.  If the handle was deleted since, the stores
\* go to freed memory; when a later handle was allocated at the same address
\* (sameAddr, the allocator's choice) they land in that handle.
Obj_callback(cb, success, sameAddr) ==
    /\ engine = "OBJ"
    /\ cb \in pendingCb
    /\ pendingCb' = pendingCb \ {cb}
    /\ uafWrite' = (uafWrite \/ hXfer[cb.slot] # cb.xfer)
    /\ IF hXfer[cb.slot] = cb.xfer \/ (hXfer[cb.slot] # 0 /\ sameAddr)
       THEN /\ status_' = [status_ EXCEPT ![cb.slot] =
                              IF success THEN NIXL_SUCCESS ELSE NIXL_ERR_BACKEND]
            /\ completed_' = [completed_ EXCEPT ![cb.slot] = TRUE]
       ELSE UNCHANGED <<status_, completed_>>
    /\ postInfo' = IF hXfer[cb.slot] = cb.xfer /\ ~success
                   THEN [postInfo EXCEPT ![cb.slot].failed = TRUE]
                   ELSE postInfo
    /\ UNCHANGED <<engine, nXfers, hXfer, worker_id, head, nPosts, hPosts, unseen,
                   checkHist, postHist, errSeen, errEver, relHist, opWorkers,
                   prepHist>>
    /\ UNCHANGED pthrVars
    /\ UNCHANGED <<slotVars, raceVars>>
    /\ UNCHANGED <<connVars, notifVars, regVars>>

\* A checkXfer that reports a handle not yet completed as done.
checkXferBlind(s) ==
    IF completed_[s] THEN status_[s] ELSE NIXL_SUCCESS

\* A checkXfer that reports every completed handle as a success.
checkXferDone(s) ==
    IF completed_[s] THEN NIXL_SUCCESS ELSE NIXL_IN_PROG

\* nixlObjEngine::checkXfer: status_ once completed_ is set, else NIXL_IN_PROG.
checkXfer(s) ==
    IF completed_[s] THEN status_[s] ELSE NIXL_IN_PROG

Obj_checkXfer(s) ==
    /\ engine = "OBJ"
    /\ hXfer[s] # 0
    /\ checkHist' = [checkHist EXCEPT ![s] = checkXfer(s)]
    /\ prepHist' = NoPrep
    /\ UNCHANGED <<engine, nXfers, hXfer, worker_id, head, nPosts, hPosts, unseen,
                   completed_, status_, pendingCb, postHist, errSeen, errEver,
                   relHist, uafWrite, opWorkers, postInfo>>
    /\ UNCHANGED pthrVars
    /\ UNCHANGED <<slotVars, raceVars>>
    /\ UNCHANGED <<connVars, notifVars, regVars>>

\* nixlObjEngine::releaseReqH: delete req_h; return NIXL_SUCCESS.
Obj_releaseReqH(s) ==
    /\ engine = "OBJ"
    /\ hXfer[s] # 0
    /\ relHist' = [ret |-> NIXL_SUCCESS, engine |-> engine,
                   last |-> IF checkHist[s] # None THEN checkHist[s]
                            ELSE postHist[s],
                   left |-> Cardinality({cb \in pendingCb :
                                            cb.slot = s /\ cb.xfer = hXfer[s]})]
    /\ hXfer' = [hXfer EXCEPT ![s] = 0]
    /\ checkHist' = [checkHist EXCEPT ![s] = None]
    /\ postHist' = [postHist EXCEPT ![s] = None]
    /\ hPosts' = [hPosts EXCEPT ![s] = 0]
    /\ postInfo' = [postInfo EXCEPT ![s] = NoPost]
    /\ prepHist' = NoPrep
    /\ objReq' = [objReq EXCEPT ![s] = NoReq]
    /\ UNCHANGED <<engine, nXfers, worker_id, head, nPosts, unseen, completed_,
                   status_, pendingCb, errSeen, errEver, uafWrite, opWorkers>>
    /\ UNCHANGED pthrVars
    /\ UNCHANGED <<slotVars, raceVars>>
    /\ UNCHANGED <<connVars, notifVars, dev_id_to_obj_key, objMd, nRegs, regHist>>

(***************************************************************************)
(* The UCX engine's progress thread and its device context.  The caller    *)
(* is one thread: it runs the constructor, then registerMem calls; callPc  *)
(* is where it stands.  pthr is the thread created last.                   *)
(***************************************************************************)
\* registerMem calls of the UCX engine in one behaviour.
MaxURegs == 3

\* CUcontext values; 0 is NULL.
CudaCtxs == {1, 2}

\* CUdevice ordinals.
CudaDevs == {0, 1}

\* mem.devId is a uint64_t: hi is its upper 32 bits, lo its lower 32 bits
\* read as a signed int (-1 is 0xFFFFFFFF).
MaxHi == 1
DevIds64 == [hi : 0 .. MaxHi, lo : {-1, 0, 1}]

\* The conversion of the uint64_t devId to the int expected_dev parameter of
\* cudaUpdateCtxPtr: the upper 32 bits are dropped.
toInt(devId) == devId.lo

\* The uint64_t devId is the device ordinal d.
SameDev(devId, d) == devId.hi = 0 /\ devId.lo = d

\* What cuPointerGetAttributes tells about mem.addr: the call fails, or the
\* address is host memory, or device memory of device dev in context ctx.
CudaAddrs ==
    {[ok |-> FALSE, is_dev |-> FALSE, dev |-> 0, ctx |-> 0],
     [ok |-> TRUE,  is_dev |-> FALSE, dev |-> 0, ctx |-> 0]}
    \cup [ok : {TRUE}, is_dev : {TRUE}, dev : CudaDevs, ctx : CudaCtxs]

\* cudaQueryAddr
cudaQueryAddr(address) ==
    [ret |-> IF address.ok THEN 0 ELSE 1, is_dev |-> address.is_dev,
     dev |-> address.dev, ctx |-> address.ctx]

\* A cudaUpdateCtxPtr that reports an update whenever the address is accepted.
cudaUpdateCtxPtrAlways(address, expected_dev) ==
    LET q    == cudaQueryAddr(address)
        keep == [ret |-> 0, was_updated |-> FALSE, ctx |-> pthrCudaCtx,
                 dev |-> myDevId]
    IN  IF expected_dev = -1 THEN [keep EXCEPT !.ret = -1]
        ELSE IF myDevId # -1 /\ expected_dev # myDevId THEN [keep EXCEPT !.ret = -1]
        ELSE IF q.ret # 0 THEN [keep EXCEPT !.ret = q.ret]
        ELSE IF ~q.is_dev THEN keep
        ELSE IF q.dev # expected_dev THEN [keep EXCEPT !.ret = -1]
        ELSE IF pthrCudaCtx # 0
             THEN (IF pthrCudaCtx # q.ctx THEN [keep EXCEPT !.ret = -1]
                   ELSE [keep EXCEPT !.was_updated = TRUE])
        ELSE [ret |-> 0, was_updated |-> TRUE, ctx |-> q.ctx, dev |-> expected_dev]

\* A cudaUpdateCtxPtr that adopts the context of every accepted address.
cudaUpdateCtxPtrFollows(address, expected_dev) ==
    LET q    == cudaQueryAddr(address)
        keep == [ret |-> 0, was_updated |-> FALSE, ctx |-> pthrCudaCtx,
                 dev |-> myDevId]
    IN  IF expected_dev = -1 THEN [keep EXCEPT !.ret = -1]
        ELSE IF q.ret # 0 THEN [keep EXCEPT !.ret = q.ret]
        ELSE IF ~q.is_dev THEN keep
        ELSE IF q.dev # expected_dev THEN [keep EXCEPT !.ret = -1]
        ELSE [ret |-> 0, was_updated |-> pthrCudaCtx = 0, ctx |-> q.ctx,
              dev |-> expected_dev]

\* nixlUcxCudaCtx::cudaUpdateCtxPtr (HAVE_CUDA): ret, was_updated and the
\* pthrCudaCtx and myDevId it leaves.
cudaUpdateCtxPtr(address, expected_dev) ==
    LET q    == cudaQueryAddr(address)
        keep == [ret |-> 0, was_updated |-> FALSE, ctx |-> pthrCudaCtx,
                 dev |-> myDevId]
    IN  IF expected_dev = -1 THEN [keep EXCEPT !.ret = -1]
        ELSE IF myDevId # -1 /\ expected_dev # myDevId THEN [keep EXCEPT !.ret = -1]
        ELSE IF q.ret # 0 THEN [keep EXCEPT !.ret = q.ret]
        ELSE IF ~q.is_dev THEN keep
        ELSE IF q.dev # expected_dev THEN [keep EXCEPT !.ret = -1]
        ELSE IF pthrCudaCtx # 0
             THEN (IF pthrCudaCtx # q.ctx THEN [keep EXCEPT !.ret = -1] ELSE keep)
        ELSE [ret |-> 0, was_updated |-> TRUE, ctx |-> q.ctx, dev |-> expected_dev]

\* nixlUcxEngine::vramUpdateCtx: ret, restart_reqd and the context it leaves.
vramUpdateCtx(address, devId) ==
    IF ~cuda_addr_wa
    THEN [ret |-> 0, restart_reqd |-> FALSE, ctx |-> pthrCudaCtx, dev |-> myDevId]
    ELSE LET u == cudaUpdateCtxPtr(address, toInt(devId))
         IN  [ret |-> u.ret, restart_reqd |-> (u.ret = 0 /\ u.was_updated),
              ctx |-> u.ctx, dev |-> u.dev]

\* nixlUcxEngine::vramApplyCtx: the context the calling thread makes current
\* (0: none).
vramApplyCtx == IF cuda_addr_wa THEN pthrCudaCtx ELSE 0

\* A progressThreadStart that does not wait for the thread.
progressThreadStart_waitNone == TRUE

\* progressThreadStart, pthrActiveCV.wait (lock, [&]{ return pthrActive; }):
\* the condition under which the wait returns.
progressThreadStart_wait == pthrActive

NoThread == [id |-> 0, pc |-> "none", applied |-> FALSE, signalled |-> FALSE,
             ctx |-> 0, at |-> None]

NoStart == [n |-> 0, by |-> None, on |-> FALSE, thread |-> NoThread]

NoUReg == [nixl_mem |-> None, devId |-> [hi |-> 0, lo |-> 0],
           address |-> [ok |-> FALSE, is_dev |-> FALSE, dev |-> 0, ctx |-> 0],
           ctxBefore |-> 0, devBefore |-> -1, tracking |-> FALSE,
           restart |-> FALSE, memFail |-> FALSE, ret |-> None]

\* The return of a progressThreadStart called from by ("ctor"/"restart"):
\* what it found of the thread it created.
startReturn(by, thr) ==
    [n |-> startHist.n + 1, by |-> by, on |-> pthrOn, thread |-> thr]

\* The tail of registerMem: memReg and packRkey (they fail or not), out.
registerMemTail(memFail) == IF memFail THEN NIXL_ERR_BACKEND ELSE NIXL_SUCCESS

\* The constructor's progressThreadStart (): pthrStop = false; without a
\* progress thread it returns, else it creates the thread and waits.
Ucx_progressThreadStart ==
    /\ engine = "UCX"
    /\ callPc = "ctor"
    /\ pthrStop' = FALSE
    /\ IF ~pthrOn
       THEN /\ callPc' = "idle"
            /\ startHist' = startReturn("ctor", NoThread)
            /\ UNCHANGED <<pthr, nThreads>>
       ELSE /\ callPc' = "ctor_wait"
            /\ nThreads' = nThreads + 1
            /\ pthr' = [NoThread EXCEPT !.id = nThreads + 1, !.pc = "created"]
            /\ UNCHANGED startHist
    /\ UNCHANGED <<cuda_addr_wa, pthrCudaCtx, myDevId, pthrActive, nRestarts, uReg>>
    /\ UNCHANGED <<xferVars, connVars, notifVars, regVars, callVars>>
    /\ UNCHANGED <<slotVars, raceVars>>

\* progressFunc up to the loop: vramApplyCtx (), then pthrActive = true and
\* notify_one.
progressFunc_applyCtx ==
    /\ engine = "UCX"
    /\ pthr.pc = "created"
    /\ pthr' = [pthr EXCEPT !.pc = "applied", !.applied = TRUE,
                            !.ctx = vramApplyCtx]
    /\ UNCHANGED <<cuda_addr_wa, pthrCudaCtx, myDevId, pthrActive, pthrStop,
                   nThreads, callPc, startHist, nRestarts, uReg>>
    /\ UNCHANGED <<xferVars, connVars, notifVars, regVars, callVars>>
    /\ UNCHANGED <<slotVars, raceVars>>

progressFunc_signal ==
    /\ engine = "UCX"
    /\ pthr.pc = "applied"
    /\ pthrActive' = TRUE
    /\ pthr' = [pthr EXCEPT !.pc = "loop", !.signalled = TRUE]
    /\ UNCHANGED <<cuda_addr_wa, pthrCudaCtx, myDevId, pthrStop, nThreads,
                   callPc, startHist, nRestarts, uReg>>
    /\ UNCHANGED <<xferVars, connVars, notifVars, regVars, callVars>>
    /\ UNCHANGED <<slotVars, raceVars>>

\* progressFunc: while (!pthrStop) ends.
progressFunc_exit ==
    /\ engine = "UCX"
    /\ pthr.pc = "loop"
    /\ pthrStop
    /\ pthr' = [pthr EXCEPT !.pc = "exited",
                            !.at = IF @ = None THEN "outer" ELSE @]
    /\ UNCHANGED <<cuda_addr_wa, pthrCudaCtx, myDevId, pthrActive, pthrStop,
                   nThreads, callPc, startHist, nRestarts, uReg>>
    /\ UNCHANGED <<xferVars, connVars, notifVars, regVars, callVars>>
    /\ UNCHANGED <<slotVars, raceVars>>

\* The wait of the constructor's progressThreadStart returns.
Ucx_progressThreadStart_return ==
    /\ engine = "UCX"
    /\ callPc = "ctor_wait"
    /\ progressThreadStart_wait
    /\ callPc' = "idle"
    /\ startHist' = startReturn("ctor", pthr)
    /\ UNCHANGED <<cuda_addr_wa, pthrCudaCtx, myDevId, pthrActive, pthrStop,
                   nThreads, pthr, nRestarts, uReg>>
    /\ UNCHANGED <<xferVars, connVars, notifVars, regVars, callVars>>
    /\ UNCHANGED <<slotVars, raceVars>>

\* nixlUcxEngine::registerMem of mem = {addr address, devId} as nixl_mem.
\* A VRAM_SEG registration updates the device context; when that asks for a
\* restart, progressThreadRestart () runs: progressThreadStop () sets
\* pthrStop and joins the thread (the call goes on in Ucx_restart_joined),
\* or, without a progress thread, both halves return at once.
Ucx_registerMem(nixl_mem, devId, address, memFail) ==
    /\ engine = "UCX"
    /\ callPc = "idle"
    /\ nRegs < MaxURegs
    /\ nRegs' = nRegs + 1
    /\ LET v    == IF nixl_mem = VRAM_SEG THEN vramUpdateCtx(address, devId)
                   ELSE [ret |-> 0, restart_reqd |-> FALSE, ctx |-> pthrCudaCtx,
                         dev |-> myDevId]
           call == [nixl_mem |-> nixl_mem, devId |-> devId, address |-> address,
                    ctxBefore |-> pthrCudaCtx, devBefore |-> myDevId,
                    tracking |-> cuda_addr_wa, restart |-> FALSE,
                    memFail |-> memFail, ret |-> None]
       IN  /\ pthrCudaCtx' = v.ctx
           /\ myDevId' = v.dev
           /\ IF v.ret # 0
              THEN /\ uReg' = [call EXCEPT !.ret = NIXL_ERR_NOT_SUPPORTED]
                   /\ UNCHANGED <<pthrStop, callPc, startHist, nRestarts>>
              ELSE IF ~v.restart_reqd
              THEN /\ uReg' = [call EXCEPT !.ret = registerMemTail(memFail)]
                   /\ UNCHANGED <<pthrStop, callPc, startHist, nRestarts>>
              ELSE /\ nRestarts' = nRestarts + 1
                   /\ IF ~pthrOn
                      THEN /\ pthrStop' = FALSE
                           /\ startHist' = startReturn("restart", NoThread)
                           /\ uReg' = [call EXCEPT !.restart = TRUE,
                                          !.ret = registerMemTail(memFail)]
                           /\ UNCHANGED callPc
                      ELSE /\ pthrStop' = TRUE
                           /\ callPc' = "restart_join"
                           /\ uReg' = [call EXCEPT !.restart = TRUE]
                           /\ UNCHANGED startHist
    /\ UNCHANGED <<cuda_addr_wa, pthrActive, nThreads, pthr>>
    /\ UNCHANGED <<dev_id_to_obj_key, objMd, regHist, objReq>>
    /\ UNCHANGED <<xferVars, connVars, notifVars, callVars>>
    /\ UNCHANGED <<slotVars, raceVars>>

\* progressThreadRestart: pthr.join () returns; progressThreadStart () sets
\* pthrStop = false, creates the thread and waits.
Ucx_restart_joined ==
    /\ engine = "UCX"
    /\ callPc = "restart_join"
    /\ pthr.pc = "exited"
    /\ pthrStop' = FALSE
    /\ nThreads' = nThreads + 1
    /\ pthr' = [NoThread EXCEPT !.id = nThreads + 1, !.pc = "created"]
    /\ callPc' = "restart_wait"
    /\ UNCHANGED <<cuda_addr_wa, pthrCudaCtx, myDevId, pthrActive, startHist,
                   nRestarts, uReg>>
    /\ UNCHANGED <<xferVars, connVars, notifVars, regVars, callVars>>
    /\ UNCHANGED <<slotVars, raceVars>>

\* The wait of progressThreadRestart's progressThreadStart returns, and
\* registerMem goes on to memReg, packRkey and its return.
Ucx_restart_return ==
    /\ engine = "UCX"
    /\ callPc = "restart_wait"
    /\ progressThreadStart_wait
    /\ callPc' = "idle"
    /\ startHist' = startReturn("restart", pthr)
    /\ uReg' = [uReg EXCEPT !.ret = registerMemTail(uReg.memFail)]
    /\ UNCHANGED <<cuda_addr_wa, pthrCudaCtx, myDevId, pthrActive, pthrStop,
                   nThreads, pthr, nRestarts>>
    /\ UNCHANGED <<xferVars, connVars, notifVars, regVars, callVars>>
    /\ UNCHANGED <<slotVars, raceVars>>

(***************************************************************************)
(* Initial states.                                                         *)
(***************************************************************************)
NoEp == [st |-> "free", worker |-> 0, closedBy |-> None]

XferInit ==
    /\ nXfers = 0
    /\ hXfer = [s \in Slots |-> 0]
    /\ worker_id = [s \in Slots |-> 0]
    /\ head = [s \in Slots |-> <<>>]
    /\ nPosts = [s \in Slots |-> 0]
    /\ hPosts = [s \in Slots |-> 0]
    /\ unseen = [x \in 1 .. MaxXfers |-> 0]
    /\ completed_ = [s \in Slots |-> FALSE]
    /\ status_ = [s \in Slots |-> "uninit"]
    /\ pendingCb = {}
    /\ checkHist = [s \in Slots |-> None]
    /\ postHist = [s \in Slots |-> None]
    /\ errSeen = [s \in Slots |-> FALSE]
    /\ errEver = [s \in Slots |-> FALSE]
    /\ relHist = NoRel
    /\ uafWrite = FALSE

\* The engine as constructed: no connection, no remote metadata.
ConnInit ==
    /\ remoteConnMap = [a \in Agents |-> NoConn]
    /\ nEps = 0
    /\ epState = [e \in EpIds |-> NoEp]
    /\ rmd = [m \in MdIds |-> NoMd]
    /\ connHist = NoCall
    /\ nCalls = 0
    /\ closedUse = FALSE

\* The engine after loadRemoteConnInfo(remoteAgent) and loadRemoteMD of one
\* registration of that agent: endpoint i+1 is worker i's.
ConnLoaded ==
    LET conn == [remoteAgent |-> remoteAgent, connected |-> FALSE,
                 eps |-> [i \in 1 .. NumWorkers |-> i]]
    IN  /\ remoteConnMap = [a \in Agents |-> IF a = remoteAgent THEN conn ELSE NoConn]
        /\ nEps = NumWorkers
        /\ epState = [e \in EpIds |->
                         IF e <= NumWorkers
                         THEN [st |-> "open", worker |-> e - 1, closedBy |-> None]
                         ELSE NoEp]
        /\ rmd = [m \in MdIds |->
                     [conn |-> conn, rkeys |-> [i \in 1 .. NumWorkers |-> i]]]
        /\ connHist = NoCall
        /\ nCalls = 0
        /\ closedUse = FALSE

\* The object engine as constructed: nothing registered.
RegInit ==
    /\ dev_id_to_obj_key = [d \in ObjDevIds |-> None]
    /\ objMd = [r \in 1 .. MaxRegs |-> NoObjMd]
    /\ nRegs = 0
    /\ regHist = NoReg
    /\ objReq = [s \in Slots |-> NoReq]

\* The object engine after registerMem of a DRAM_SEG buffer (device 1) and of
\* an OBJ_SEG object (device 2, key "k").
RegLoaded ==
    /\ dev_id_to_obj_key = [d \in ObjDevIds |-> IF d = 2 THEN "k" ELSE None]
    /\ objMd = [r \in 1 .. MaxRegs |->
                   IF r = 1 THEN [nixl_mem |-> DRAM_SEG, dev_id |-> 1,
                                  obj_key |-> "", live |-> TRUE]
                   ELSE IF r = 2 THEN [nixl_mem |-> OBJ_SEG, dev_id |-> 2,
                                       obj_key |-> "k", live |-> TRUE]
                   ELSE NoObjMd]
    /\ nRegs = MaxRegs
    /\ regHist = NoReg
    /\ objReq = [s \in Slots |-> NoReq]

\* The progress thread of an engine whose constructor has returned: running
\* its loop if enabled; no device context adopted.
PthrStarted ==
    /\ cuda_addr_wa = TRUE
    /\ pthrCudaCtx = 0
    /\ myDevId = -1
    /\ pthrActive = pthrOn
    /\ pthrStop = FALSE
    /\ nThreads = IF pthrOn THEN 1 ELSE 0
    /\ pthr = IF pthrOn
              THEN [id |-> 1, pc |-> "loop", applied |-> TRUE, signalled |-> TRUE,
                    ctx |-> 0, at |-> None]
              ELSE NoThread
    /\ callPc = "idle"
    /\ startHist = NoStart
    /\ nRestarts = 0
    /\ uReg = NoUReg

\* The constructor at its last statement, progressThreadStart (): pthrOn and
\* cuda_addr_wa are set, the context object is new, no thread exists.
PthrCtor ==
    /\ cuda_addr_wa \in BOOLEAN
    /\ pthrCudaCtx = 0
    /\ myDevId = -1
    /\ pthrActive = FALSE
    /\ pthrStop = FALSE
    /\ nThreads = 0
    /\ pthr = NoThread
    /\ callPc = "ctor"
    /\ startHist = NoStart
    /\ nRestarts = 0
    /\ uReg = NoUReg

CallInit ==
    /\ opWorkers = [s \in Slots |-> {}]
    /\ postInfo = [s \in Slots |-> NoPost]
    /\ prepHist = NoPrep
    /\ held = [s \in Slots |-> 0]
    /\ poolDirty = {}
    /\ cancelMiss = {}
    /\ cbWrote = {}
    /\ liveBufs = 0
    /\ connCall = NoConnect
    /\ cbStored = {}
    /\ chkSeen = [s \in Slots |-> FALSE]

NotifInit ==
    /\ amChan = [w \in Workers |-> <<>>]
    /\ rxQueue = <<>>
    /\ nGets = 0
    /\ nSent = 0
    /\ notifMainList = <<>>
    /\ notifPthrPriv = <<>>
    /\ notifPthr = <<>>
    /\ cbRan = [n \in 1 .. MaxNotifs |-> None]
    /\ gotNotifs = <<>>
    /\ lastGot = <<>>
    /\ earlyNotif = FALSE
    /\ amHist = NoAmCall

(***************************************************************************)
(* Spec: the life of transfer handles, in an engine of either kind.  The   *)
(* UCX engine has its connection to the remote agent and one remote        *)
(* registration loaded.                                                    *)
(***************************************************************************)
Init ==
    /\ engine \in {"UCX", "OBJ"}
    /\ XferInit
    /\ ConnLoaded
    /\ pthrOn = FALSE
    /\ NotifInit
    /\ RegLoaded
    /\ CallInit
    /\ PthrStarted

\* The local list has descriptors of length 1; the remote list is any list.
LocalLists == {[i \in 1 .. n |-> 1] : n \in 1 .. MaxDesc}

Next ==
    \/ \E s \in Slots, w \in Workers, local_mem \in MemKinds :
          Ucx_prepXfer(s, w, local_mem, DRAM_SEG)
    \/ \E s \in {p \in Slots : hXfer[p] # 0 /\ nPosts[p] < MaxPosts} :
          \E operation \in XferOps, local \in LocalLists, remote \in DescLists,
             m \in MdIds :
             \E outs \in {o \in [1 .. (Len(local) + 2) -> Outcomes] :
                             o[Len(local) + 2] = NIXL_SUCCESS} :
                Ucx_postXfer(s, 0, operation, local, remote, remoteAgent, m,
                             FALSE, outs)
    \/ \E s \in Slots : Ucx_checkXfer(s, 0)
    \/ \E s \in Slots : Ucx_releaseReqH(s, 0)
    \/ \E s \in Slots : \E i \in DOMAIN head[s], res \in {"ok", "err"} :
          ReqCompletes(s, i, res)
    \/ \E x \in 1 .. MaxXfers : WriteLands(x)
    \/ \E s \in Slots, local_mem \in MemKinds :
          Obj_prepXfer(s, local_mem, OBJ_SEG, localAgent)
    \/ \E s \in Slots, operation \in XferOps, r \in 0 .. MaxRegs :
          Obj_postXfer(s, operation, 1, r, TRUE, 0, 1)
    \/ \E cb \in pendingCb, success \in BOOLEAN, sameAddr \in BOOLEAN :
          Obj_callback(cb, success, sameAddr)
    \/ \E s \in Slots : Obj_checkXfer(s)
    \/ \E s \in Slots : Obj_releaseReqH(s)

Spec == Init /\ [][Next]_vars

(***************************************************************************)
(* SpecConn: the connection table of a UCX engine, from construction: the  *)
(* connections it loads, checks and drops, the remote registrations it     *)
(* loads, and the transfers and notifications it posts on them.            *)
(***************************************************************************)
InitConn ==
    /\ engine = "UCX"
    /\ XferInit
    /\ ConnInit
    /\ pthrOn = FALSE
    /\ NotifInit
    /\ RegInit
    /\ CallInit
    /\ PthrStarted

NextConn ==
    \/ \E remote_agent \in Agents, k \in FailAt :
          Ucx_loadRemoteConnInfo(remote_agent, k)
    \/ \E remote_agent \in Agents, outs \in [1 .. NumWorkers -> Outcomes],
          k \in FailAt :
          Ucx_connect(remote_agent, outs, k)
    \/ \E remote_agent \in Agents, dnFail \in BOOLEAN :
          Ucx_disconnect(remote_agent, dnFail)
    \/ \E m \in MdIds, remote_agent \in Agents, kfail \in FailAt :
          Ucx_loadRemoteMD(m, remote_agent, kfail)
    \/ \E m \in MdIds : Ucx_unloadMD(m)
    \/ \E s \in Slots, w \in Workers : Ucx_prepXfer(s, w, DRAM_SEG, DRAM_SEG)
    \/ \E s \in {p \in Slots : hXfer[p] # 0 /\ nPosts[p] < MaxPosts} :
          \E m \in MdIds, hasNotif \in BOOLEAN :
             Ucx_postXfer(s, 0, NIXL_WRITE, <<1>>, <<1>>, remoteAgent, m, hasNotif,
                          <<NIXL_IN_PROG, NIXL_IN_PROG, NIXL_IN_PROG>>)
    \/ \E remote_agent \in Agents, w \in Workers :
          Ucx_genNotif(remote_agent, w, NIXL_SUCCESS)

SpecConn == InitConn /\ [][NextConn]_vars

(***************************************************************************)
(* SpecNotif: notifications from this engine to the remote agent, sent     *)
(* with a transfer or on their own, and the receiving engine's lists, with *)
(* or without a progress thread.                                           *)
(***************************************************************************)
InitNotif ==
    /\ engine = "UCX"
    /\ XferInit
    /\ ConnLoaded
    /\ pthrOn \in BOOLEAN
    /\ NotifInit
    /\ RegInit
    /\ CallInit
    /\ PthrStarted

NextNotif ==
    \/ \E s \in Slots, w \in Workers : Ucx_prepXfer(s, w, DRAM_SEG, DRAM_SEG)
    \/ \E s \in {p \in Slots : hXfer[p] # 0 /\ nPosts[p] < MaxPosts} :
          \E m \in MdIds, out \in {NIXL_SUCCESS, NIXL_IN_PROG} :
             Ucx_postXfer(s, 0, NIXL_WRITE, <<1>>, <<1>>, remoteAgent, m, TRUE,
                          <<NIXL_SUCCESS, NIXL_IN_PROG, out>>)
    \/ \E s \in Slots : \E i \in DOMAIN head[s] : ReqCompletes(s, i, "ok")
    \/ \E x \in 1 .. MaxXfers : WriteLands(x)
    \/ \E s \in Slots : Ucx_checkXfer(s, 0)
    \/ \E w \in Workers : Ucx_genNotif(remoteAgent, w, NIXL_SUCCESS)
    \/ \E w \in Workers : AmArrives(w)
    \/ \E j \in 1 .. MaxNotifs : PthrProgress(j)
    \/ notifProgress
    \/ \E j \in 1 .. MaxNotifs : Ucx_progress(j)
    \/ Ucx_getNotifs

SpecNotif == InitNotif /\ [][NextNotif]_vars

(***************************************************************************)
(* SpecPin: the threads of a UCX engine's caller.  Each call on a handle   *)
(* is made by a thread of either hash; transfers read one descriptor pair  *)
(* and may carry a notification.                                           *)
(***************************************************************************)
InitPin ==
    /\ engine = "UCX"
    /\ XferInit
    /\ ConnLoaded
    /\ pthrOn = FALSE
    /\ NotifInit
    /\ RegInit
    /\ CallInit
    /\ PthrStarted

NextPin ==
    \/ \E s \in Slots, w \in Workers : Ucx_prepXfer(s, w, DRAM_SEG, DRAM_SEG)
    \/ \E s \in {p \in Slots : hXfer[p] # 0 /\ nPosts[p] < MaxPosts} :
          \E caller \in Workers, m \in MdIds, hasNotif \in BOOLEAN,
             out \in {NIXL_SUCCESS, NIXL_IN_PROG} :
             Ucx_postXfer(s, caller, NIXL_READ, <<1>>, <<1>>, remoteAgent, m,
                          hasNotif, <<NIXL_IN_PROG, out, out>>)
    \/ \E s \in Slots : \E i \in DOMAIN head[s] : ReqCompletes(s, i, "ok")
    \/ \E s \in Slots, caller \in Workers : Ucx_checkXfer(s, caller)
    \/ \E s \in Slots, caller \in Workers : Ucx_releaseReqH(s, caller)

SpecPin == InitPin /\ [][NextPin]_vars

(***************************************************************************)
(* SpecObj: an object engine from construction: the objects and buffers it *)
(* registers and deregisters, and the transfers prepared and posted on     *)
(* them, with lists of one or more descriptor pairs.                       *)
(***************************************************************************)
InitObj ==
    /\ engine = "OBJ"
    /\ XferInit
    /\ ConnInit
    /\ pthrOn = FALSE
    /\ NotifInit
    /\ RegInit
    /\ CallInit
    /\ PthrStarted

NextObj ==
    \/ \E devId \in ObjDevIds, metaInfo \in MetaInfos,
          nixl_mem \in Obj_getSupportedMems :
          Obj_registerMem(devId, metaInfo, nixl_mem)
    \/ \E r \in 1 .. MaxRegs : Obj_deregisterMem(r)
    \/ \E s \in Slots, local_mem \in MemKinds, remote_mem \in MemKinds,
          remote_agent \in Agents :
          Obj_prepXfer(s, local_mem, remote_mem, remote_agent)
    \/ \E s \in Slots, operation \in XferOps, n \in 1 .. MaxDesc,
          r \in 0 .. MaxRegs, readsOld \in BOOLEAN :
          Obj_postXfer(s, operation, n, r, readsOld, 0, 1)
    \/ \E cb \in pendingCb, success \in BOOLEAN, sameAddr \in BOOLEAN :
          Obj_callback(cb, success, sameAddr)
    \/ \E s \in Slots : Obj_checkXfer(s)
    \/ \E s \in Slots : Obj_releaseReqH(s)

SpecObj == InitObj /\ [][NextObj]_vars

(***************************************************************************)
(* SpecObjReq: the requests of an object engine with a buffer and an       *)
(* object registered: transfers of one descriptor pair, at any offset of   *)
(* the object and of any length.                                           *)
(***************************************************************************)
InitObjReq ==
    /\ engine = "OBJ"
    /\ XferInit
    /\ ConnInit
    /\ pthrOn = FALSE
    /\ NotifInit
    /\ RegLoaded
    /\ CallInit
    /\ PthrStarted

NextObjReq ==
    \/ \E s \in Slots : Obj_prepXfer(s, DRAM_SEG, OBJ_SEG, localAgent)
    \/ \E s \in Slots, operation \in XferOps, r \in 0 .. MaxRegs,
          addr \in 0 .. MaxAddr, len \in Lens :
          Obj_postXfer(s, operation, 1, r, TRUE, addr, len)
    \/ \E cb \in pendingCb, success \in BOOLEAN, sameAddr \in BOOLEAN :
          Obj_callback(cb, success, sameAddr)
    \/ \E s \in Slots : Obj_checkXfer(s)
    \/ \E s \in Slots : Obj_releaseReqH(s)

SpecObjReq == InitObjReq /\ [][NextObjReq]_vars

(***************************************************************************)
(* SpecPthr: a UCX engine from the end of its constructor, with or without *)
(* a progress thread and device-context tracking: the thread's start, and  *)
(* the registrations of host and device memory that restart it.            *)
(***************************************************************************)
InitPthr ==
    /\ engine = "UCX"
    /\ XferInit
    /\ ConnInit
    /\ pthrOn \in BOOLEAN
    /\ NotifInit
    /\ RegInit
    /\ CallInit
    /\ PthrCtor

NextPthr ==
    \/ Ucx_progressThreadStart
    \/ progressFunc_applyCtx
    \/ progressFunc_signal
    \/ progressFunc_exit
    \/ Ucx_progressThreadStart_return
    \/ \E nixl_mem \in Ucx_getSupportedMems, devId \in DevIds64,
          address \in CudaAddrs, memFail \in BOOLEAN :
          Ucx_registerMem(nixl_mem, devId, address, memFail)
    \/ Ucx_restart_joined
    \/ Ucx_restart_return

SpecPthr == InitPthr /\ [][NextPthr]_vars

(***************************************************************************)
(* SpecAm: the active-message callbacks of a UCX engine that has the       *)
(* remote agent's connection loaded, for deliveries of any opcode and      *)
(* protocol, and the lists its notifications go through.                   *)
(***************************************************************************)
InitAm ==
    /\ engine = "UCX"
    /\ XferInit
    /\ ConnLoaded
    /\ pthrOn \in BOOLEAN
    /\ NotifInit
    /\ RegInit
    /\ CallInit
    /\ PthrStarted

NextAm ==
    \/ \E op \in AmOps, rndv \in BOOLEAN, remote_agent \in Agents :
          Am_connectionCheckAmCb(op, rndv, remote_agent)
    \/ \E op \in AmOps, rndv \in BOOLEAN, remote_agent \in Agents :
          Am_connectionTermAmCb(op, rndv, remote_agent)
    \/ \E op \in AmOps, rndv \in BOOLEAN, msg \in 1 .. MaxNotifs,
          onPthr \in BOOLEAN :
          Am_notifAmCb(op, rndv, remoteAgent, msg, onPthr)
    \/ notifProgress
    \/ Ucx_getNotifs

SpecAm == InitAm /\ [][NextAm]_vars

(***************************************************************************)
(* SpecReq: the request slots of a UCX engine's transfers: reads and       *)
(* writes of one or two descriptor pairs, with or without a notification,  *)
(* posted once on each handle, every transport call completing at once,    *)
(* pending or failing; and the notifications sent outside a transfer.      *)
(***************************************************************************)
\* The notification arguments of a postXfer: none, or a notification to the
\* remote agent or to an agent whose connection is not loaded.
NotifArgs ==
    {[hasNotif |-> FALSE, remote_agent |-> remoteAgent]}
    \cup [hasNotif : {TRUE}, remote_agent : Agents]

InitReq ==
    /\ engine = "UCX"
    /\ XferInit
    /\ ConnLoaded
    /\ pthrOn = FALSE
    /\ NotifInit
    /\ RegInit
    /\ CallInit
    /\ PthrStarted

NextReq ==
    \/ \E s \in Slots, w \in Workers : Ucx_prepXfer(s, w, DRAM_SEG, DRAM_SEG)
    \/ \E s \in {p \in Slots : hXfer[p] # 0 /\ hPosts[p] = 0} :
          \E operation \in {NIXL_READ, NIXL_WRITE}, local \in LocalLists,
             m \in MdIds, notif \in NotifArgs :
             \E outs \in {o \in [1 .. (Len(local) + 2) -> Outcomes] :
                             ~notif.hasNotif => o[Len(local) + 2] = NIXL_SUCCESS} :
                Ucx_postXfer(s, 0, operation, local, local, notif.remote_agent, m,
                             notif.hasNotif, outs)
    \/ \E s \in Slots : Ucx_checkXfer(s, 0)
    \/ \E s \in Slots : Ucx_releaseReqH(s, 0)
    \/ \E s \in Slots : \E i \in DOMAIN head[s], res \in {"ok", "err"} :
          ReqCompletes(s, i, res)
    \/ \E x \in 1 .. MaxXfers : WriteLands(x)
    \/ \E remote_agent \in Agents, out \in Outcomes :
          Ucx_genNotif(remote_agent, 0, out)

SpecReq == InitReq /\ [][NextReq]_vars

(***************************************************************************)
(* nixlUcxEngine::connect to a remote agent, statement by statement: the   *)
(* send loop, then the wait loop, whose test() calls interleave with the   *)
(* transport completing the sends.  connCall holds the locals of the call: *)
(* reqs, ret, i, error; tests[i] is what the last test of reqs[i] returned *)
(* (None: never tested); wild: test was called on a reqs[i] that no send   *)
(* left in progress, a request the transport does not define.              *)
(***************************************************************************)
\* reqs[i] after the send loop: the request of a send left in progress, or
\* the element emplace_back() made, which sendAm gave no pending request.
connectReq(out) ==
    IF out = NIXL_IN_PROG THEN nixlUcxIntReq("am", FALSE)
    ELSE [nixlUcxIntReq("am", FALSE) EXCEPT !.st = "unset"]

\* The send loop of connect: one CONN_CHECK per worker up to the first send
\* that fails; ret is what the last sendAm returned.
connectSend(remote_agent, outs) ==
    LET k     == submitted(outs, 1)
        error == k < NumWorkers
        n     == IF error THEN k + 1 ELSE NumWorkers
    IN  [pc |-> "wait", agent |-> remote_agent,
         reqs |-> [j \in 1 .. n |-> connectReq(outs[j])],
         ret |-> outs[n], i |-> 1, error |-> error, out |-> None,
         tests |-> [j \in 1 .. n |-> None], wild |-> FALSE]

\* A wait loop that calls test and drops what it returns.
connectWaitKeepsRet(c, res) ==
    [c EXCEPT !.tests[c.i] = IF c.reqs[c.i].st = "unset" THEN res
                             ELSE test(c.reqs[c.i]),
              !.wild = @ \/ c.reqs[c.i].st = "unset"]

\* One pass of "while(ret == NIXL_IN_PROG) ret = getWorker(i)->test(reqs[i])".
\* res is what test returns for a request no send left in progress.
connectWait(c, res) ==
    LET ret == IF c.reqs[c.i].st = "unset" THEN res ELSE test(c.reqs[c.i]) IN
    [c EXCEPT !.ret = ret, !.tests[c.i] = ret,
              !.wild = @ \/ c.reqs[c.i].st = "unset"]

\* connect(remote_agent) is called for an agent other than the local one:
\* the lookup and the send loop.
Conn_connect(remote_agent, outs) ==
    /\ engine = "UCX"
    /\ connCall.pc \in {"idle", "done"}
    /\ remote_agent # localAgent
    /\ nCalls < MaxCalls
    /\ nCalls' = nCalls + 1
    /\ connCall' = IF remoteConnMap[remote_agent] = NoConn
                   THEN [NoConnect EXCEPT !.pc = "done", !.agent = remote_agent,
                                          !.out = NIXL_ERR_NOT_FOUND]
                   ELSE connectSend(remote_agent, outs)
    /\ UNCHANGED <<remoteConnMap, nEps, epState, rmd, connHist, closedUse>>
    /\ UNCHANGED <<cbStored, chkSeen, cbWrote>>
    /\ UNCHANGED <<xferVars, notifVars, regVars, callVars, pthrVars, slotVars>>

\* The body of the inner while of the wait loop.
Conn_test(res) ==
    /\ connCall.pc = "wait"
    /\ connCall.i <= Len(connCall.reqs)
    /\ connCall.ret = NIXL_IN_PROG
    /\ connCall' = connectWait(connCall, res)
    /\ UNCHANGED <<cbStored, chkSeen, cbWrote>>
    /\ UNCHANGED <<xferVars, connVars, notifVars, regVars, callVars, pthrVars,
                   slotVars>>

\* The inner while ends (ret is not NIXL_IN_PROG): i++.
Conn_next ==
    /\ connCall.pc = "wait"
    /\ connCall.i <= Len(connCall.reqs)
    /\ connCall.ret # NIXL_IN_PROG
    /\ connCall' = [connCall EXCEPT !.i = @ + 1]
    /\ UNCHANGED <<cbStored, chkSeen, cbWrote>>
    /\ UNCHANGED <<xferVars, connVars, notifVars, regVars, callVars, pthrVars,
                   slotVars>>

\* The wait loop ends (i = reqs.size()): connect returns.
Conn_return ==
    /\ connCall.pc = "wait"
    /\ connCall.i > Len(connCall.reqs)
    /\ connCall' = [connCall EXCEPT !.pc = "done",
                        !.out = IF connCall.error THEN NIXL_SUCCESS
                                ELSE NIXL_ERR_BACKEND]
    /\ UNCHANGED <<cbStored, chkSeen, cbWrote>>
    /\ UNCHANGED <<xferVars, connVars, notifVars, regVars, callVars, pthrVars,
                   slotVars>>

\* The transport completes (or fails) a CONN_CHECK send left in progress.
Conn_sendCompletes(j, res) ==
    /\ connCall.pc = "wait"
    /\ j \in DOMAIN connCall.reqs
    /\ connCall.reqs[j].st = "pending"
    /\ connCall' = [connCall EXCEPT !.reqs[j].st = res]
    /\ UNCHANGED <<cbStored, chkSeen, cbWrote>>
    /\ UNCHANGED <<xferVars, connVars, notifVars, regVars, callVars, pthrVars,
                   slotVars>>

InitWait == InitReq

Tests == \E res \in Outcomes : Conn_test(res)

SendCompletes == \E j \in 1 .. NumWorkers, res \in {"ok", "err"} : Conn_sendCompletes(j, res)

NextWait ==
    \/ \E remote_agent \in Agents, outs \in [1 .. NumWorkers -> Outcomes] :
          Conn_connect(remote_agent, outs)
    \/ Tests
    \/ Conn_next
    \/ Conn_return
    \/ SendCompletes

\* The caller's thread runs on, and the transport finishes what it was given.
FairWait ==
    /\ WF_vars(Tests) /\ WF_vars(Conn_next) /\ WF_vars(Conn_return)
    /\ WF_vars(SendCompletes)

SpecWait == InitWait /\ [][NextWait]_vars /\ FairWait

(***************************************************************************)
(* The loop of progressFunc, statement by statement, and the callers that  *)
(* stop the thread: progressThreadRestart (in registerMem) and the         *)
(* destructor.  pthr.pc: "loop" at the test of while (!pthrStop), "drain"  *)
(* in the progress loops, "arm" at the head of the inner loop, "poll" in   *)
(* poll ().  pthr.at: the test at which the thread saw pthrStop set.       *)
(***************************************************************************)
\* What the progress loops of the thread and the notifProgress () after them
\* leave: the callbacks of the arrived messages have run on the thread and
\* their entries are moved to notifPthr.
progressFunc_progress ==
    LET r == runCallbacks(rxQueue, [main |-> notifMainList, priv |-> notifPthrPriv],
                          TRUE)
        c == notifProgressCombineHelper(r.priv, notifPthr)
    IN  /\ notifMainList' = r.main
        /\ notifPthrPriv' = c.src
        /\ notifPthr' = c.tgt
        /\ cbRan' = RanOn(rxQueue, "pthr")
        /\ earlyNotif' = (earlyNotif \/ Early(rxQueue))
        /\ rxQueue' = <<>>
        /\ UNCHANGED <<pthrOn, amChan, nGets, nSent, gotNotifs, lastGot, amHist>>

\* An inner loop that ends only when a worker could not be armed.
progressFunc_breakUnarmed(all_armed) == ~all_armed

\* if (!all_armed || pthrStop) break;
progressFunc_break(all_armed) == ~all_armed \/ pthrStop

\* while (!pthrStop) holds: the thread enters the loop body.
progressFunc_enter ==
    /\ engine = "UCX"
    /\ pthr.pc = "loop"
    /\ ~pthrStop
    /\ pthr' = [pthr EXCEPT !.pc = "drain"]
    /\ UNCHANGED <<cuda_addr_wa, pthrCudaCtx, myDevId, pthrActive, pthrStop,
                   nThreads, callPc, startHist, nRestarts, uReg>>
    /\ UNCHANGED <<xferVars, connVars, notifVars, regVars, callVars>>
    /\ UNCHANGED <<slotVars, raceVars>>

\* The progress loops have ended.  With made_progress: notifProgress () and
\* continue; without: on to the inner loop.
progressFunc_drain(made_progress) ==
    /\ engine = "UCX"
    /\ pthr.pc = "drain"
    /\ rxQueue # <<>> => made_progress
    /\ IF made_progress
       THEN /\ progressFunc_progress
            /\ pthr' = [pthr EXCEPT !.pc = "loop"]
       ELSE /\ pthr' = [pthr EXCEPT !.pc = "arm"]
            /\ UNCHANGED notifVars
    /\ UNCHANGED <<cuda_addr_wa, pthrCudaCtx, myDevId, pthrActive, pthrStop,
                   nThreads, callPc, startHist, nRestarts, uReg>>
    /\ UNCHANGED <<xferVars, connVars, regVars, callVars>>
    /\ UNCHANGED <<slotVars, raceVars>>

\* The workers are armed (all_armed: every ucp_worker_arm returned UCS_OK),
\* then the inner loop breaks or goes on to poll ().
progressFunc_arm(all_armed) ==
    /\ engine = "UCX"
    /\ pthr.pc = "arm"
    /\ pthr' = IF progressFunc_break(all_armed)
               THEN [pthr EXCEPT !.pc = "loop",
                                 !.at = IF all_armed THEN "inner" ELSE @]
               ELSE [pthr EXCEPT !.pc = "poll"]
    /\ UNCHANGED <<cuda_addr_wa, pthrCudaCtx, myDevId, pthrActive, pthrStop,
                   nThreads, callPc, startHist, nRestarts, uReg>>
    /\ UNCHANGED <<xferVars, connVars, notifVars, regVars, callVars>>
    /\ UNCHANGED <<slotVars, raceVars>>

\* poll () returns: after pthrDelay without events, or with events, which
\* the thread handles (progress on the workers, notifProgress ()).
progressFunc_poll(events) ==
    /\ engine = "UCX"
    /\ pthr.pc = "poll"
    /\ rxQueue # <<>> => events
    /\ IF events THEN progressFunc_progress ELSE UNCHANGED notifVars
    /\ pthr' = [pthr EXCEPT !.pc = "arm"]
    /\ UNCHANGED <<cuda_addr_wa, pthrCudaCtx, myDevId, pthrActive, pthrStop,
                   nThreads, callPc, startHist, nRestarts, uReg>>
    /\ UNCHANGED <<xferVars, connVars, regVars, callVars>>
    /\ UNCHANGED <<slotVars, raceVars>>

\* nixlUcxEngine::~nixlUcxEngine, progressThreadStop (): without a progress
\* thread it returns, else it sets pthrStop and joins.
Ucx_destructor ==
    /\ engine = "UCX"
    /\ callPc = "idle"
    /\ IF ~pthrOn
       THEN callPc' = "destroyed" /\ UNCHANGED pthrStop
       ELSE callPc' = "stop_join" /\ pthrStop' = TRUE
    /\ UNCHANGED <<cuda_addr_wa, pthrCudaCtx, myDevId, pthrActive, nThreads, pthr,
                   startHist, nRestarts, uReg>>
    /\ UNCHANGED <<xferVars, connVars, notifVars, regVars, callVars>>
    /\ UNCHANGED <<slotVars, raceVars>>

\* The destructor's pthr.join () returns.
Ucx_destructor_joined ==
    /\ engine = "UCX"
    /\ callPc = "stop_join"
    /\ pthr.pc = "exited"
    /\ callPc' = "destroyed"
    /\ UNCHANGED <<cuda_addr_wa, pthrCudaCtx, myDevId, pthrActive, pthrStop,
                   nThreads, pthr, startHist, nRestarts, uReg>>
    /\ UNCHANGED <<xferVars, connVars, notifVars, regVars, callVars>>
    /\ UNCHANGED <<slotVars, raceVars>>

InitStop == InitPthr

\* The steps of the progress thread.
ThreadRuns ==
    \/ progressFunc_applyCtx
    \/ progressFunc_signal
    \/ progressFunc_enter
    \/ \E made_progress \in BOOLEAN : progressFunc_drain(made_progress)
    \/ \E all_armed \in BOOLEAN : progressFunc_arm(all_armed)
    \/ \E events \in BOOLEAN : progressFunc_poll(events)
    \/ progressFunc_exit

\* The returns of the joins and waits of the calling thread.
CallerResumes ==
    \/ Ucx_progressThreadStart_return
    \/ Ucx_restart_joined
    \/ Ucx_restart_return
    \/ Ucx_destructor_joined

NextStop ==
    \/ Ucx_progressThreadStart
    \/ ThreadRuns
    \/ CallerResumes
    \/ \E devId \in DevIds64, address \in CudaAddrs :
          Ucx_registerMem(VRAM_SEG, devId, address, FALSE)
    \/ Ucx_destructor

\* The thread is scheduled, its progress loops and its poll () return, and a
\* join returns once the thread has ended.
FairStop == WF_vars(ThreadRuns) /\ WF_vars(CallerResumes)

SpecStop == InitStop /\ [][NextStop]_vars /\ FairStop

(***************************************************************************)
(* The object engine's completion callback and checkXfer, load by load and *)
(* store by store: the callback runs on an executor thread while a caller  *)
(* thread polls.  completed_ and status_ are atomics, so each store and    *)
(* each load is one step and they are seen in program order.               *)
(***************************************************************************)
\* A callback that sets completed_ before it stores status_.
callbackStoresFlagFirst == <<"completed_", "status_">>

\* The stores of the completion callback, in program order.
callbackStores == <<"status_", "completed_">>

\* A store of callback cb through its req_h reaches the handle now in the
\* slot: its own, or a later one allocated at the same address.
storeHits(cb, sameAddr) ==
    hXfer[cb.slot] = cb.xfer \/ (hXfer[cb.slot] # 0 /\ sameAddr)

\* One store of callback cb: req_h->status_ = ... or req_h->completed_ = true.
callbackStore(cb, field, success, sameAddr) ==
    /\ uafWrite' = (uafWrite \/ hXfer[cb.slot] # cb.xfer)
    /\ IF field = "status_"
       THEN /\ status_' = IF storeHits(cb, sameAddr)
                          THEN [status_ EXCEPT ![cb.slot] =
                                   IF success THEN NIXL_SUCCESS ELSE NIXL_ERR_BACKEND]
                          ELSE status_
            /\ cbWrote' = cbWrote \cup
                   {[slot |-> cb.slot, xfer |-> cb.xfer, k |-> cb.k,
                     status |-> IF success THEN NIXL_SUCCESS ELSE NIXL_ERR_BACKEND]}
            /\ UNCHANGED completed_
       ELSE /\ completed_' = IF storeHits(cb, sameAddr)
                             THEN [completed_ EXCEPT ![cb.slot] = TRUE]
                             ELSE completed_
            /\ UNCHANGED <<status_, cbWrote>>

\* The callback of an operation starts (the operation succeeded or not) and
\* makes its first store.
Obj_callback_first(cb, success, sameAddr) ==
    /\ engine = "OBJ"
    /\ cb \in pendingCb
    /\ \A c \in cbStored : c.cb # cb
    /\ callbackStore(cb, callbackStores[1], success, sameAddr)
    /\ cbStored' = cbStored \cup {[cb |-> cb, success |-> success]}
    /\ postInfo' = IF hXfer[cb.slot] = cb.xfer /\ ~success
                   THEN [postInfo EXCEPT ![cb.slot].failed = TRUE]
                   ELSE postInfo
    /\ UNCHANGED <<engine, nXfers, hXfer, worker_id, head, nPosts, hPosts, unseen,
                   pendingCb, checkHist, postHist, errSeen, errEver, relHist,
                   opWorkers, prepHist>>
    /\ UNCHANGED <<connCall, chkSeen>>
    /\ UNCHANGED <<connVars, notifVars, regVars, pthrVars, slotVars>>

\* The callback makes its second store and returns.
Obj_callback_second(c, sameAddr) ==
    /\ engine = "OBJ"
    /\ c \in cbStored
    /\ callbackStore(c.cb, callbackStores[2], c.success, sameAddr)
    /\ cbStored' = cbStored \ {c}
    /\ pendingCb' = pendingCb \ {c.cb}
    /\ UNCHANGED <<engine, nXfers, hXfer, worker_id, head, nPosts, hPosts, unseen,
                   checkHist, postHist, errSeen, errEver, relHist>>
    /\ UNCHANGED <<connCall, chkSeen>>
    /\ UNCHANGED <<connVars, notifVars, regVars, callVars, pthrVars, slotVars>>

\* checkXfer: if (req_h->completed_), the load; not set, it returns
\* NIXL_IN_PROG.
Obj_checkXfer_load(s) ==
    /\ engine = "OBJ"
    /\ hXfer[s] # 0
    /\ ~chkSeen[s]
    /\ IF completed_[s]
       THEN /\ chkSeen' = [chkSeen EXCEPT ![s] = TRUE]
            /\ UNCHANGED checkHist
       ELSE /\ checkHist' = [checkHist EXCEPT ![s] = NIXL_IN_PROG]
            /\ UNCHANGED chkSeen
    /\ prepHist' = NoPrep
    /\ UNCHANGED <<engine, nXfers, hXfer, worker_id, head, nPosts, hPosts, unseen,
                   completed_, status_, pendingCb, postHist, errSeen, errEver,
                   relHist, uafWrite, opWorkers, postInfo>>
    /\ UNCHANGED <<connCall, cbStored, cbWrote>>
    /\ UNCHANGED <<connVars, notifVars, regVars, pthrVars, slotVars>>

\* checkXfer: return req_h->status_, the load.
Obj_checkXfer_status(s) ==
    /\ engine = "OBJ"
    /\ chkSeen[s]
    /\ checkHist' = [checkHist EXCEPT ![s] = status_[s]]
    /\ chkSeen' = [chkSeen EXCEPT ![s] = FALSE]
    /\ UNCHANGED <<engine, nXfers, hXfer, worker_id, head, nPosts, hPosts, unseen,
                   completed_, status_, pendingCb, postHist, errSeen, errEver,
                   relHist, uafWrite>>
    /\ UNCHANGED <<connCall, cbStored, cbWrote>>
    /\ UNCHANGED <<connVars, notifVars, regVars, callVars, pthrVars, slotVars>>

InitRace == InitObjReq

\* A checkXfer of the caller is under way, between its two loads.
Polling == \E s \in Slots : chkSeen[s]

NextRace ==
    \/ ~Polling /\ \E s \in Slots : Obj_prepXfer(s, DRAM_SEG, OBJ_SEG, localAgent)
    \/ ~Polling /\ \E s \in Slots, operation \in XferOps, r \in 0 .. MaxRegs :
                       Obj_postXfer(s, operation, 1, r, TRUE, 0, 1)
    \/ ~Polling /\ \E s \in Slots : Obj_releaseReqH(s)
    \/ \E cb \in pendingCb, success \in BOOLEAN, sameAddr \in BOOLEAN :
          Obj_callback_first(cb, success, sameAddr)
    \/ \E c \in cbStored, sameAddr \in BOOLEAN : Obj_callback_second(c, sameAddr)
    \/ \E s \in Slots : Obj_checkXfer_load(s)
    \/ \E s \in Slots : Obj_checkXfer_status(s)

SpecRace == InitRace /\ [][NextRace]_vars

(***************************************************************************)
(* One transfer whose caller polls it: every request the transport left in *)
(* progress completes in the end, every write arrives, and the caller      *)
(* keeps calling checkXfer.                                                *)
(***************************************************************************)
InitCheck == InitReq

Polls == \E s \in Slots : Ucx_checkXfer(s, 0)

Completes == \E s \in Slots : \E i \in 1 .. (MaxDesc + 2) : ReqCompletes(s, i, "ok")

Lands == \E x \in 1 .. MaxXfers : WriteLands(x)

NextCheck ==
    \/ \E s \in Slots, w \in Workers : Ucx_prepXfer(s, w, DRAM_SEG, DRAM_SEG)
    \/ \E s \in {p \in Slots : hXfer[p] # 0 /\ hPosts[p] = 0} :
          \E operation \in {NIXL_READ, NIXL_WRITE}, local \in LocalLists, m \in MdIds, notif \in NotifArgs :
             \E outs \in {o \in [1 .. (Len(local) + 2) -> Outcomes] : ~notif.hasNotif => o[Len(local) + 2] = NIXL_SUCCESS} :
                Ucx_postXfer(s, 0, operation, local, local, notif.remote_agent, m, notif.hasNotif, outs)
    \/ Polls
    \/ Completes
    \/ Lands

FairCheck == WF_vars(Polls) /\ WF_vars(Completes) /\ WF_vars(Lands)

SpecCheck == InitCheck /\ [][NextCheck]_vars /\ FairCheck

(***************************************************************************)
(* Properties of the handle life cycle (checked under Spec).               *)
(***************************************************************************)
Terminal(v) == v \notin {None, NIXL_IN_PROG}

\* C1: for a handle posted once, in either engine, once checkXfer has
\* returned a terminal value (Success or an error), every later checkXfer of
\* that handle returns the same value: never InProgress again, never another
\* terminal value.
CheckXferMonotonic ==
    [][\A s \in Slots :
          (/\ hXfer[s] # 0 /\ hXfer'[s] = hXfer[s]
           /\ hPosts[s] = 1 /\ hPosts'[s] = 1
           /\ Terminal(checkHist[s]))
          => checkHist'[s] = checkHist[s]]_vars

\* C2: once a checkXfer of a UCX handle has seen a request fail, every later
\* checkXfer on that handle returns NIXL_ERR_BACKEND.
ErrorLatchesForHandleLife ==
    \A s \in Slots :
       (engine = "UCX" /\ hXfer[s] # 0 /\ errEver[s] /\ checkHist[s] # None)
       => checkHist[s] = NIXL_ERR_BACKEND

\* C2, the part that holds: once a status() walk of a UCX handle has seen a
\* request fail, every checkXfer returns NIXL_ERR_BACKEND, whatever the other
\* requests do, until the handle is released or a further postXfer whose
\* operation fails at submission releases the chain.
ErrorLatchesUntilChainReleased ==
    \A s \in Slots :
       (engine = "UCX" /\ hXfer[s] # 0 /\ errSeen[s] /\ checkHist[s] # None)
       => checkHist[s] = NIXL_ERR_BACKEND

\* A handle whose failure was seen by a checkXfer, with another request of
\* its chain completed or failed since, and checked again.
ErrorSeenAndOthersMoved ==
    \E s \in Slots :
       /\ engine = "UCX" /\ hXfer[s] # 0 /\ errEver[s] /\ errSeen[s]
       /\ checkHist[s] = NIXL_ERR_BACKEND
       /\ \E i, j \in DOMAIN head[s] :
             /\ i # j
             /\ head[s][i].st = "err"
             /\ head[s][j].st # "pending"

\* C6: releaseReqH returns NIXL_SUCCESS in whatever state it finds the
\* handle, in both engines.
ReleaseReturnsSuccess ==
    relHist # NoRel => relHist.ret = NIXL_SUCCESS

\* A UCX handle released while requests of its chain were still in progress.
ReleasedInProgress ==
    /\ relHist # NoRel
    /\ relHist.engine = "UCX"
    /\ relHist.last = NIXL_IN_PROG
    /\ relHist.left > 0

\* C7: a completion callback of the object engine never reads or writes a
\* handle that releaseReqH has deleted.
NoCallbackIntoReleasedHandle == ~uafWrite


(***************************************************************************)
(* Properties of notifications (checked under SpecNotif).                  *)
(***************************************************************************)
\* The list entry of notification n: the sender's name and the message.
Entry(n) == <<localAgent, n>>

Count(q, e) == Cardinality({i \in DOMAIN q : q[i] = e})

OnWire(n) ==
    Cardinality({w \in Workers : \E i \in DOMAIN amChan[w] :
                                    getStr(amChan[w][i].data, "msg") = n})
    + Cardinality({i \in DOMAIN rxQueue : getStr(rxQueue[i].data, "msg") = n})

Held(n) ==
    Count(notifMainList, Entry(n)) + Count(notifPthrPriv, Entry(n))
    + Count(notifPthr, Entry(n))

\* C3: when the NOTIF_STR callback of a transfer's notification runs, every
\* write that transfer issued is in its target memory.
NotifNeverBeforeData == ~earlyNotif

NotifsInSendOrder ==
    \A i, j \in DOMAIN gotNotifs :
       i < j => gotNotifs[i][2] < gotNotifs[j][2]

(***************************************************************************)
(* Properties of connection management (checked under SpecConn).           *)
(***************************************************************************)
\* C8: connect to an agent of the connection table returns NIXL_SUCCESS when
\* a CONN_CHECK message was submitted on every worker's endpoint, and
\* NIXL_ERR_BACKEND when a submission failed.
ConnectReturnMatchesSubmission ==
    (connHist.op = "connect" /\ connHist.found /\ connHist.am # None)
    => /\ connHist.am = "all" => connHist.ret = NIXL_SUCCESS
       /\ connHist.am = "failed" => connHist.ret = NIXL_ERR_BACKEND

\* C9: a loadRemoteConnInfo whose endpoint creation fails on worker k returns
\* NIXL_ERR_BACKEND, has disconnected each of the k endpoints it created on
\* the worker that created it, and leaves the connection table as it was,
\* without an entry for the agent.
LoadRollsBack ==
    [][(/\ connHist'.n # connHist.n
        /\ connHist'.op = "loadRemoteConnInfo"
        /\ ~connHist'.found
        /\ connHist'.k < NumWorkers)
       => /\ connHist'.ret = NIXL_ERR_BACKEND
          /\ Len(connHist'.eps) = connHist'.k
          /\ \A i \in DOMAIN connHist'.eps :
                /\ epState[connHist'.eps[i]].st = "free"
                /\ epState'[connHist'.eps[i]].st = "closed"
                /\ epState'[connHist'.eps[i]].worker = i - 1
                /\ epState'[connHist'.eps[i]].closedBy = i - 1
          /\ \A e \in EpIds : epState'[e].st = "open" => epState[e].st = "open"
          /\ remoteConnMap' = remoteConnMap
          /\ remoteConnMap'[connHist'.agent] = NoConn]_vars

\* A load that failed after it had created an endpoint.
LoadFailedAfterFirstEp ==
    /\ connHist.op = "loadRemoteConnInfo"
    /\ connHist.ret = NIXL_ERR_BACKEND
    /\ Len(connHist.eps) >= 1

\* C10: no read, write, flush or active message is issued on an endpoint that
\* has been disconnected.
NoOpOnClosedEndpoint == ~closedUse

(***************************************************************************)
(* Properties of remote registrations (checked under SpecConn).            *)
(***************************************************************************)
\* C11: a registration that loadRemoteMD or loadLocalMD returned with
\* NIXL_SUCCESS holds exactly one imported key per worker of the engine, and
\* key i was imported on the endpoint that worker i created for the
\* connection of the registration's agent.
RegistrationHoldsOneKeyPerWorker ==
    \A m \in MdIds :
        rmd[m] # NoMd =>
            /\ Len(rmd[m].rkeys) = NumWorkers
            /\ Len(rmd[m].conn.eps) = NumWorkers
            /\ \A w \in Workers :
                   /\ rmd[m].rkeys[w + 1] = getEp(rmd[m].conn, w)
                   /\ epState[rmd[m].rkeys[w + 1]].worker = w
                   /\ epState[rmd[m].rkeys[w + 1]].st # "free"

\* A registration of the local agent's own connection has been loaded.
LocalRegistrationLoaded ==
    \E m \in MdIds : rmd[m] # NoMd /\ rmd[m].conn.remoteAgent = localAgent

(***************************************************************************)
(* Properties of the worker a handle uses (checked under SpecPin).         *)
(***************************************************************************)
\* C12: every transport call made on a handle (the operations of postXfer,
\* the tests of checkXfer, the cancels and releases of releaseReqH) is made
\* on the worker chosen at prepXfer, whatever thread makes the call; a
\* transfer's notification travels on that worker's endpoint.
HandleUsesItsPrepWorker ==
    \A s \in Slots :
        /\ \A e \in opWorkers[s] : e[2] = worker_id[s]
        /\ hXfer[s] # 0 =>
               \A w \in Workers : \A i \in DOMAIN amChan[w] :
                   amChan[w][i].xfer = hXfer[s] => w = worker_id[s]

\* A handle pinned to worker 1 was used by threads of both hashes and then
\* released with requests on its chain.
HandleUsedByOtherThread ==
    \E s \in Slots :
        /\ worker_id[s] = 1
        /\ hXfer[s] = 0
        /\ {e[1] : e \in opWorkers[s]} = {0, 1}
        /\ relHist.left > 0

(***************************************************************************)
(* Properties of what postXfer returns (checked under Spec).               *)
(***************************************************************************)
\* C13: postXfer returns NIXL_IN_PROG exactly when an operation it issued
\* is still pending on the handle's chain when it returns, and NIXL_SUCCESS
\* exactly when it issued every operation and all completed at once.
PostReturnsInProgIffPending ==
    \A s \in Slots :
        (engine = "UCX" /\ hXfer[s] # 0 /\ postInfo[s].ops # None) =>
            /\ postHist[s] = NIXL_IN_PROG <=> postInfo[s].ops = "pending"
            /\ postHist[s] = NIXL_SUCCESS <=> postInfo[s].ops = "allsync"

\* C13, the part that holds: the same for the first postXfer of a handle
\* that did not return NIXL_ERR_INVALID_PARAM; the pending operations are
\* on the chain until the next checkXfer.
FirstPostReturnsInProgIffPending ==
    \A s \in Slots :
        (engine = "UCX" /\ hXfer[s] # 0 /\ hPosts[s] = 1
           /\ postHist[s] # NIXL_ERR_INVALID_PARAM) =>
            /\ postHist[s] = NIXL_IN_PROG <=> postInfo[s].ops = "pending"
            /\ postHist[s] = NIXL_SUCCESS <=> postInfo[s].ops = "allsync"
            /\ (postInfo[s].ops = "pending" /\ checkHist[s] = None)
                  => head[s] # <<>>
            /\ postInfo[s].ops = "allsync" => head[s] = <<>>

\* A first postXfer of two descriptor pairs completed every operation at once.
PostedAllAtOnce ==
    \E s \in Slots :
        /\ engine = "UCX" /\ hXfer[s] # 0 /\ hPosts[s] = 1
        /\ postInfo[s].n = 2
        /\ postInfo[s].ops = "allsync"
        /\ postHist[s] = NIXL_SUCCESS

\* C14: a postXfer given lists in which the lengths of some pair differ
\* returns NIXL_ERR_INVALID_PARAM.
LengthMismatchIsInvalidParam ==
    \A s \in Slots :
        (engine = "UCX" /\ hXfer[s] # 0 /\ postInfo[s].mism) =>
            postHist[s] = NIXL_ERR_INVALID_PARAM

\* C14, the part that holds: such a postXfer never returns NIXL_SUCCESS or
\* NIXL_IN_PROG; it returns NIXL_ERR_INVALID_PARAM unless the operation of an
\* earlier pair failed when issued, and then it returns that failure with
\* the chain released.
LengthMismatchIsRefused ==
    \A s \in Slots :
        (engine = "UCX" /\ hXfer[s] # 0 /\ postInfo[s].mism) =>
            \/ postHist[s] = NIXL_ERR_INVALID_PARAM
            \/ /\ postHist[s] = NIXL_ERR_BACKEND
               /\ postInfo[s].ops = "failed"
               /\ postInfo[s].disp \in 1 .. (postInfo[s].n - 1)

\* A postXfer was refused for the lengths of its second pair after it had
\* issued the operation of the first.
RefusedAtSecondPair ==
    \E s \in Slots :
        /\ engine = "UCX" /\ hXfer[s] # 0
        /\ postInfo[s].mism
        /\ postInfo[s].disp = 1
        /\ postHist[s] = NIXL_ERR_INVALID_PARAM

(***************************************************************************)
(* Properties of what prepXfer accepts (checked under Spec and SpecObj).   *)
(***************************************************************************)
\* The memory kinds an engine takes for the two lists of a transfer: the UCX
\* engine those of getSupportedMems, the object engine a DRAM_SEG local list
\* and an OBJ_SEG remote list.
KindsSupported(e, local_mem, remote_mem) ==
    IF e = "OBJ"
    THEN local_mem = DRAM_SEG /\ remote_mem = OBJ_SEG
    ELSE local_mem \in Ucx_getSupportedMems /\ remote_mem \in Ucx_getSupportedMems

\* C15: a transfer whose local or remote list is of a memory kind the
\* engine does not take is refused with NIXL_ERR_INVALID_PARAM and no
\* handle is made for it.
UnsupportedKindsRefused ==
    (prepHist.engine # None
       /\ ~KindsSupported(prepHist.engine, prepHist.local, prepHist.remote)) =>
        /\ prepHist.ret = NIXL_ERR_INVALID_PARAM
        /\ ~prepHist.made

\* C16: the object engine's prepXfer for a remote agent other than the
\* engine's own agent returns NIXL_ERR_INVALID_PARAM and makes no handle.
OtherAgentRefused ==
    (prepHist.engine = "OBJ" /\ prepHist.agent # localAgent) =>
        /\ prepHist.ret = NIXL_ERR_INVALID_PARAM
        /\ ~prepHist.made

(***************************************************************************)
(* Properties of the object engine's transfers (checked under SpecObj).    *)
(***************************************************************************)
\* The completion callbacks not yet run of the operations postXfer
\* dispatched on the live handle of slot s.
Outstanding(s) == {cb \in pendingCb : cb.slot = s /\ cb.xfer = hXfer[s]}

\* C17: a postXfer that dispatches does so once per descriptor pair: for
\* lists of n pairs it starts n PutObjectAsync or GetObjectAsync operations.
PostDispatchesOnePerPair ==
    \A s \in Slots :
        (engine = "OBJ" /\ hXfer[s] # 0 /\ postHist[s] = NIXL_IN_PROG) =>
            postInfo[s].disp = postInfo[s].n

\* C18: after a postXfer that dispatched, checkXfer returns NIXL_IN_PROG as
\* long as the completion callback of one of the handle's operations has not
\* run, and NIXL_SUCCESS only once every one has run and reported success.
CheckWaitsForCallbacks ==
    \A s \in Slots :
        (engine = "OBJ" /\ hXfer[s] # 0 /\ postHist[s] = NIXL_IN_PROG
           /\ checkHist[s] # None) =>
            /\ Outstanding(s) # {} => checkHist[s] = NIXL_IN_PROG
            /\ checkHist[s] = NIXL_SUCCESS =>
                  (Outstanding(s) = {} /\ ~postInfo[s].failed)

\* C18, the part that holds: the same for a handle posted once, as long as
\* no callback of a released handle has run.
CheckWaitsForOwnCallback ==
    \A s \in Slots :
        (engine = "OBJ" /\ hXfer[s] # 0 /\ postHist[s] = NIXL_IN_PROG
           /\ checkHist[s] # None /\ hPosts[s] = 1 /\ ~uafWrite) =>
            /\ Outstanding(s) # {} => checkHist[s] = NIXL_IN_PROG
            /\ checkHist[s] = NIXL_SUCCESS =>
                  (Outstanding(s) = {} /\ ~postInfo[s].failed)

\* checkXfer returned NIXL_IN_PROG while the callback was outstanding, on a
\* handle posted once.
CheckedWhileOutstanding ==
    \E s \in Slots :
        /\ engine = "OBJ" /\ hXfer[s] # 0 /\ hPosts[s] = 1 /\ ~uafWrite
        /\ postHist[s] = NIXL_IN_PROG
        /\ Outstanding(s) # {}
        /\ checkHist[s] = NIXL_IN_PROG

\* C19: once the store operation of a descriptor pair of a transfer has
\* failed, no checkXfer on the handle returns NIXL_SUCCESS, and a checkXfer
\* made when every callback has run returns NIXL_ERR_BACKEND.
NoPartialSuccess ==
    [][\A s \in Slots :
          (Obj_checkXfer(s) /\ postInfo[s].failed) =>
              /\ checkHist'[s] # NIXL_SUCCESS
              /\ Outstanding(s) = {} => checkHist'[s] = NIXL_ERR_BACKEND]_vars

\* C19, the part that holds: the same for a handle posted once, as long as
\* no callback of a released handle has run.
NoPartialSuccessOwnCallback ==
    [][\A s \in Slots :
          (Obj_checkXfer(s) /\ postInfo[s].failed /\ hPosts[s] = 1 /\ ~uafWrite) =>
              /\ checkHist'[s] # NIXL_SUCCESS
              /\ Outstanding(s) = {} => checkHist'[s] = NIXL_ERR_BACKEND]_vars

\* The operation of a transfer of two descriptor pairs failed and checkXfer
\* returned NIXL_ERR_BACKEND.
FailedTransferChecked ==
    \E s \in Slots :
        /\ engine = "OBJ" /\ hXfer[s] # 0 /\ hPosts[s] = 1 /\ ~uafWrite
        /\ postInfo[s].n = 2
        /\ postInfo[s].failed
        /\ checkHist[s] = NIXL_ERR_BACKEND

\* C20: a postXfer whose remote descriptor names an object registration
\* whose device id deregisterMem has taken out of the index returns
\* NIXL_ERR_INVALID_PARAM and dispatches nothing.
DeregisteredObjectRefused ==
    \A s \in Slots :
        (engine = "OBJ" /\ hXfer[s] # 0 /\ postInfo[s].ref = "gone") =>
            /\ postHist[s] = NIXL_ERR_INVALID_PARAM
            /\ postInfo[s].disp = 0


(***************************************************************************)
(* Properties of the object engine's index (checked under SpecObj) and of  *)
(* its requests (checked under SpecObjReq).                                *)
(***************************************************************************)
\* C21: registerMem followed by deregisterMem of the handle it returned
\* leaves dev_id_to_obj_key as it was before the registerMem call, also when
\* the device id already had a key.
RegisterDeregisterRestoresIndex ==
    regHist.done => regHist.after = regHist.before

\* C21, the part that holds: the index is restored when the registration is
\* not of an object, or when its device id had no key before.
RegisterDeregisterRestoresFreshId ==
    (/\ regHist.done
     /\ \/ regHist.kind # OBJ_SEG
        \/ regHist.before[objMd[regHist.r].dev_id] = None) =>
        /\ regHist.after = regHist.before
        /\ regHist.dret = NIXL_SUCCESS

\* An object was registered under a device id without a key while another
\* device id had one, and deregistered at once.
FreshIdRegisteredAndDeregistered ==
    /\ regHist.done
    /\ regHist.kind = OBJ_SEG
    /\ regHist.before[objMd[regHist.r].dev_id] = None
    /\ \E d \in ObjDevIds : regHist.before[d] # None

\* C24: registerMem of a DRAM_SEG descriptor returns NIXL_SUCCESS and makes
\* no metadata object (out stays null); the deregisterMem of that handle
\* returns NIXL_SUCCESS and does not touch the index.
DramRegistrationMakesNoMetadata ==
    regHist.kind = DRAM_SEG =>
        /\ regHist.ret = NIXL_SUCCESS
        /\ regHist.out = 0
        /\ regHist.done => (regHist.dret = NIXL_SUCCESS /\
                            regHist.after = regHist.before)

\* C24, the part that holds: registerMem of a DRAM_SEG descriptor and the
\* deregisterMem of its handle return NIXL_SUCCESS and leave the index alone.
DramRegistrationLeavesIndex ==
    regHist.kind = DRAM_SEG =>
        /\ regHist.ret = NIXL_SUCCESS
        /\ ~regHist.done => dev_id_to_obj_key = regHist.before
        /\ regHist.done => (regHist.dret = NIXL_SUCCESS /\
                            regHist.after = regHist.before)

\* A DRAM_SEG buffer was registered under a device id that has an object key.
DramRegisteredOverObjectId ==
    /\ regHist.kind = DRAM_SEG
    /\ ~regHist.done
    /\ regHist.before[objMd[regHist.r].dev_id] # None

\* C22: a NIXL_WRITE posted with a non-zero remote address gives no request
\* to the store, and checkXfer returns NIXL_ERR_BACKEND once it is done.
PutAtOffsetFails ==
    \A s \in Slots :
        (/\ engine = "OBJ" /\ hXfer[s] # 0 /\ hPosts[s] = 1 /\ ~uafWrite
         /\ postInfo[s].ref = OBJ_SEG
         /\ objReq[s].operation = NIXL_WRITE
         /\ objReq[s].addr # 0) =>
            /\ objReq[s].op = None
            /\ checkHist[s] \in {None, NIXL_IN_PROG, NIXL_ERR_BACKEND}

\* C23: a NIXL_READ posted for remote address k and length n asks the store
\* for the bytes k .. k+n-1 of the object.
GetRequestsByteRange ==
    \A s \in Slots :
        (/\ engine = "OBJ" /\ hXfer[s] # 0
         /\ postInfo[s].ref = OBJ_SEG
         /\ objReq[s].operation = NIXL_READ) =>
            /\ objReq[s].op = "GET"
            /\ objReq[s].range = <<objReq[s].addr,
                                   objReq[s].addr + objReq[s].len - 1>>

(***************************************************************************)
(* Properties of posting (checked under Spec).                             *)
(***************************************************************************)
\* C25: a second postXfer on a handle that was posted and not released
\* issues no operation on it.
SecondPostIssuesNothing ==
    \A s \in Slots :
        (hXfer[s] # 0 /\ hPosts[s] >= 2) => postInfo[s].disp = 0


(***************************************************************************)
(* Properties of the progress thread and the device context (checked      *)
(* under SpecPthr).                                                        *)
(***************************************************************************)
\* C26: with the progress thread enabled, every return of
\* progressThreadStart, the one inside progressThreadRestart included, comes
\* after the thread that call created has applied the device context and
\* signalled readiness.
StartReturnsAfterThreadReady ==
    (startHist.n > 0 /\ startHist.on) =>
        /\ startHist.thread.applied
        /\ startHist.thread.signalled

\* C26, the part that holds: the constructor's progressThreadStart returns
\* after its thread has applied the device context and signalled readiness.
FirstStartReturnsAfterThreadReady ==
    (startHist.n > 0 /\ startHist.on /\ startHist.by = "ctor") =>
        /\ startHist.thread.id = 1
        /\ startHist.thread.applied
        /\ startHist.thread.signalled

\* The constructor's progressThreadStart has returned with a thread running.
FirstStartReturned ==
    /\ startHist.n = 1
    /\ startHist.on
    /\ startHist.by = "ctor"
    /\ callPc = "idle"

\* A VRAM_SEG registerMem of device memory has returned while a context was
\* adopted, its device id or its context not being the adopted one.
OtherDevice(r) ==
    /\ r.nixl_mem = VRAM_SEG
    /\ r.ret # None
    /\ r.tracking
    /\ r.ctxBefore # 0
    /\ r.address.ok /\ r.address.is_dev
    /\ \/ r.address.ctx # r.ctxBefore
       \/ ~SameDev(r.devId, r.devBefore)

\* C27: once a VRAM registration has adopted context c for device d, a later
\* VRAM registerMem of a device address whose context is not c, or whose
\* device id is not d, returns NIXL_ERR_NOT_SUPPORTED and leaves the tracked
\* context and device id as they were.
OtherDeviceRefused ==
    OtherDevice(uReg) =>
        /\ uReg.ret = NIXL_ERR_NOT_SUPPORTED
        /\ pthrCudaCtx = uReg.ctxBefore
        /\ myDevId = uReg.devBefore
        /\ ~uReg.restart

\* C27, the part that holds: the same for device ids that fit an int.
OtherDeviceRefusedInt ==
    (OtherDevice(uReg) /\ uReg.devId.hi = 0) =>
        /\ uReg.ret = NIXL_ERR_NOT_SUPPORTED
        /\ pthrCudaCtx = uReg.ctxBefore
        /\ myDevId = uReg.devBefore
        /\ ~uReg.restart

\* A registration of the adopted device in another context was refused.
OtherContextRefused ==
    /\ OtherDevice(uReg)
    /\ SameDev(uReg.devId, uReg.devBefore)
    /\ uReg.address.dev = uReg.devBefore
    /\ uReg.address.ctx # uReg.ctxBefore
    /\ uReg.ret = NIXL_ERR_NOT_SUPPORTED

Rejectable(h) == h.cb # None /\ (h.rndv \/ h.op # h.cb)

\* C29: a CONN_CHECK, DISCONNECT or NOTIF_STR callback given a delivery by
\* rendezvous, or a header with another opcode, returns an error and changes
\* nothing in the engine; a rejected NOTIF_STR appends to no list.
AmCallbacksReject ==
    [][(amHist'.n = amHist.n + 1 /\ Rejectable(amHist')) =>
          /\ amHist'.ret = UCS_ERR_INVALID_PARAM
          /\ UNCHANGED <<notifMainList, notifPthrPriv, notifPthr, gotNotifs>>
          /\ UNCHANGED <<pthrOn, amChan, rxQueue, nGets, nSent, cbRan, lastGot,
                         earlyNotif>>
          /\ UNCHANGED <<xferVars, connVars, regVars, callVars, pthrVars>>]_vars

\* A NOTIF_STR delivery by rendezvous was rejected after another had been
\* accepted.
RendezvousNotifRejected ==
    /\ amHist.cb = NOTIF_STR
    /\ amHist.op = NOTIF_STR
    /\ amHist.rndv
    /\ amHist.ret = UCS_ERR_INVALID_PARAM
    /\ Len(notifMainList) + Len(notifPthrPriv) > 0

PostIssuesInOrder ==
    \A s \in Slots :
        (engine = "UCX" /\ hXfer[s] # 0 /\ postInfo[s].ops # None) =>
            LET c == postInfo[s].calls
                n == postInfo[s].n
            IN  /\ Len(c) <= n + 2
                /\ \A j \in DOMAIN c :
                       /\ c[j].worker = worker_id[s]
                       /\ j <= n => (c[j].call = "read/write" /\ c[j].pair = j)
                       /\ j = n + 1 => c[j].call = "flushEp"
                       /\ j = n + 2 => (c[j].call = "sendAm" /\ postInfo[s].notif)
                /\ postHist[s] \in {NIXL_SUCCESS, NIXL_IN_PROG} =>
                       Len(c) = n + 1 + (IF postInfo[s].notif THEN 1 ELSE 0)

\* A postXfer of two descriptor pairs with a notification has made its four
\* calls and returned NIXL_IN_PROG.
PostedWithNotification ==
    \E s \in Slots :
        /\ engine = "UCX" /\ hXfer[s] # 0
        /\ postInfo[s].n = 2 /\ postInfo[s].notif
        /\ Len(postInfo[s].calls) = 4
        /\ postHist[s] = NIXL_IN_PROG


\* C32: releaseReqH on a handle with requests left on its chain calls
\* reqCancel on exactly those not marked complete, hands every one of them
\* back to the pool once and leaves the chain empty; through post, checks and
\* release the slots handed out and not handed back are exactly the requests
\* on the chain, so none is handed back twice and none outlives the handle.
ReleaseReturnsEverySlot ==
    /\ cancelMiss = {}
    /\ \A s \in Slots :
          /\ held[s] = Len(head[s])
          /\ hXfer[s] = 0 => head[s] = <<>> /\ held[s] = 0

\* A release has found three requests on the chain of a transfer that was
\* still in progress, and has handed all of them back.
ReleasedPendingChain ==
    \E s \in Slots :
        /\ relHist # NoRel
        /\ relHist.left = 3
        /\ relHist.last = NIXL_IN_PROG
        /\ hXfer[s] = 0
        /\ held[s] = 0

\* C33: whenever postXfer returns NIXL_ERR_INVALID_PARAM (lists of different
\* counts, lengths that differ at some pair, an unknown operation) it has
\* issued no transport operation and the chain of the handle is what it was
\* before the call.
InvalidParamIssuesNothing ==
    [][\A s \in Slots :
          (nPosts'[s] = nPosts[s] + 1 /\ postHist'[s] = NIXL_ERR_INVALID_PARAM)
              => (postInfo'[s].disp = 0 /\ head'[s] = head[s])]_vars

\* C34: when a read or write, the flush or the notification send of a
\* postXfer fails at once, every request appended so far is cancelled if not
\* complete and handed back, the chain is empty when postXfer returns, and
\* what it returns is an error, never NIXL_SUCCESS or NIXL_IN_PROG.
FailedPostLeavesNothing ==
    \A s \in Slots :
        (hXfer[s] # 0 /\ postInfo[s].ops = "failed" /\ checkHist[s] = None) =>
            /\ head[s] = <<>>
            /\ held[s] = 0
            /\ cancelMiss = {}
            /\ postHist[s] \notin {None, NIXL_SUCCESS, NIXL_IN_PROG}

\* A post of two pairs with a notification has made all four of its calls,
\* the last of them failed, and nothing is left on the chain.
PostFailedAtNotification ==
    \E s \in Slots :
        /\ hXfer[s] # 0
        /\ postInfo[s].ops = "failed"
        /\ postInfo[s].n = 2
        /\ Len(postInfo[s].calls) = 4
        /\ postHist[s] = NIXL_ERR_BACKEND
        /\ head[s] = <<>>

\* The serialized notification buffers attached to requests on the chains of
\* the handles in S.
RECURSIVE Attached(_)
Attached(S) ==
    IF S = {} THEN 0
    ELSE LET s == CHOOSE t \in S : TRUE IN Buffers(head[s]) + Attached(S \ {s})

\* C39: every request slot handed back to the transport's pool is in its
\* reset state, completion flag clear and no buffer attached, on every path
\* that hands one back, so that no serialized notification buffer stays
\* attached to a recycled slot.
SlotsHandedBackReset == poolDirty = {}

\* C39, for the slots a handle hands back (postXfer, checkXfer, releaseReqH):
\* each is in its reset state, and while no other path has handed back a
\* slot the buffers alive are those attached to requests still on a chain.
HandleSlotsHandedBackReset ==
    /\ \A d \in poolDirty : d.path = "genNotif"
    /\ poolDirty = {} => liveBufs = Attached(Slots)

\* A transfer whose other requests a checkXfer has handed back still waits
\* for its notification send, the one buffer alive attached to that request.
NotificationBufferAttached ==
    \E s \in Slots :
        /\ hXfer[s] # 0
        /\ checkHist[s] = NIXL_IN_PROG
        /\ Len(postInfo[s].calls) = 4
        /\ Len(head[s]) = 1
        /\ head[s][1].amBuffer
        /\ liveBufs = 1
        /\ poolDirty = {}

\* C36: when every request a postXfer left in progress completes in the end
\* and the caller keeps calling checkXfer, some checkXfer returns
\* NIXL_SUCCESS; and whenever one has, the chain is empty and every slot of
\* the transfer has been handed back.
PollingReachesSuccess ==
    /\ [](\A s \in Slots :
             (hXfer[s] # 0 /\ checkHist[s] = NIXL_SUCCESS) =>
                 (head[s] = <<>> /\ held[s] = 0))
    /\ \A s \in Slots :
          (hXfer[s] # 0 /\ postHist[s] = NIXL_IN_PROG)
              ~> (checkHist[s] = NIXL_SUCCESS /\ head[s] = <<>> /\ held[s] = 0)

\* A checkXfer has returned NIXL_SUCCESS for a transfer of two pairs with a
\* notification whose postXfer had returned NIXL_IN_PROG.
PolledToSuccess ==
    \E s \in Slots :
        /\ hXfer[s] # 0
        /\ postHist[s] = NIXL_IN_PROG
        /\ Len(postInfo[s].calls) = 4
        /\ checkHist[s] = NIXL_SUCCESS
        /\ head[s] = <<>>
        /\ held[s] = 0

\* C35: connect does not return before every CONN_CHECK send it submitted
\* has been tested to completion, whatever each worker's send returned
\* (complete at once or left in progress).
ConnectTestsEverySend ==
    (connCall.pc = "done" /\ connCall.out # NIXL_ERR_NOT_FOUND) =>
        \A j \in DOMAIN connCall.reqs :
            connCall.reqs[j].st # "unset" =>
                connCall.tests[j] \notin {None, NIXL_IN_PROG}

\* C35, the wait loop: once the sends left in progress complete, the loop
\* ends and connect returns, unless it has called test on an element of reqs
\* that holds no pending request.
ConnectWaitTerminates ==
    (connCall.pc = "wait") ~> (connCall.pc = "done" \/ connCall.wild)

\* connect has returned after its wait loop tested a send left in progress
\* until the transport reported it complete.
ConnectWaited ==
    /\ connCall.pc = "done"
    /\ ~connCall.wild
    /\ \E j \in DOMAIN connCall.reqs :
          /\ connCall.reqs[j].st = "ok"
          /\ connCall.tests[j] = NIXL_SUCCESS

\* C37: once progressThreadStop has set pthrStop, the progress thread leaves
\* its inner loop and its outer loop and ends, and the join returns,
\* wherever the thread stood (in the progress loops, arming the workers,
\* after a failed arm, in or after poll), given that the progress loops end
\* and poll returns.
StopJoinsThread ==
    /\ (pthrStop /\ pthr.pc \notin {"none", "exited"}) ~> (pthr.pc = "exited")
    /\ (callPc \in {"restart_join", "stop_join"})
           ~> (callPc \in {"restart_wait", "destroyed"})

\* The destructor's join has returned after the thread saw pthrStop at the
\* test of its inner loop, with the workers armed.
StoppedInInnerLoop ==
    /\ callPc = "destroyed"
    /\ pthrOn
    /\ pthrStop
    /\ pthr.pc = "exited"
    /\ pthr.at = "inner"

\* The status_ stores made by the callback of the last postXfer of the
\* handle in slot s.
OwnStores(s) ==
    {w \in cbWrote : w.slot = s /\ w.xfer = hXfer[s] /\ w.k = nPosts[s]}

\* C38: under every interleaving of the completion callback with a polling
\* caller, a checkXfer that finds the handle completed returns the
\* NIXL_SUCCESS or NIXL_ERR_BACKEND that the callback of the current
\* postXfer stored, never any other terminal status.
CheckReturnsCallbackStatus ==
    \A s \in Slots :
        (engine = "OBJ" /\ hXfer[s] # 0 /\ postHist[s] = NIXL_IN_PROG
           /\ checkHist[s] \notin {None, NIXL_IN_PROG}) =>
            /\ checkHist[s] \in {NIXL_SUCCESS, NIXL_ERR_BACKEND}
            /\ \E w \in OwnStores(s) : w.status = checkHist[s]

\* C38, the part that holds: the same for a handle posted once, as long as
\* no callback of a released handle has stored anything.
CheckReturnsOwnCallbackStatus ==
    \A s \in Slots :
        (engine = "OBJ" /\ hXfer[s] # 0 /\ postHist[s] = NIXL_IN_PROG
           /\ checkHist[s] \notin {None, NIXL_IN_PROG}
           /\ hPosts[s] = 1 /\ ~uafWrite) =>
            /\ checkHist[s] \in {NIXL_SUCCESS, NIXL_ERR_BACKEND}
            /\ \E w \in OwnStores(s) : w.status = checkHist[s]

\* A checkXfer on a handle posted once has found it completed and returned
\* the failure its callback stored.
CheckedAfterOwnCallback ==
    \E s \in Slots :
        /\ engine = "OBJ" /\ hXfer[s] # 0 /\ hPosts[s] = 1 /\ ~uafWrite
        /\ postHist[s] = NIXL_IN_PROG
        /\ checkHist[s] = NIXL_ERR_BACKEND
        /\ \E w \in OwnStores(s) : w.status = NIXL_ERR_BACKEND
====
